---- MODULE Spec2Model ----
(***************************************************************************)
(* The interactive selection engine of pi-ext's leader-key extension:      *)
(*   - searchableSelect      (incrementally filtered pick-list)            *)
(*   - runModelSwitcher      (provider -> model -> thinking level wizard)  *)
(*   - runThinkingPicker     (single searchable step)                      *)
(*   - LeaderKeyOverlay      (two-level chorded palette) / openLeaderKey   *)
(*   - runFavouriteModels    (single-key quick-pick overlay)               *)
(*                                                                         *)
(* Strings the code inspects character by character are sequences of       *)
(* one-character strings; display-only text is a plain string.  Indices    *)
(* (highlightedIndex, scrollOffset) are 0-based as in the source.          *)
(***************************************************************************)
EXTENDS Integers, Sequences, FiniteSets, TLC

(***************************************************************************)
(* Bounds of the model.                                                    *)
(***************************************************************************)
\* longest query the model types into a searchable list
MaxQuery == 2
\* number of extension commands in the long command list (more than one window)
LongLen == 17

(***************************************************************************)
(* Program constants.                                                      *)
(***************************************************************************)
MAX_VISIBLE == 15

ALL_THINKING_LEVELS ==
  << <<"o","f","f">>, <<"m","i","n","i","m","a","l">>, <<"l","o","w">>,
     <<"m","e","d","i","u","m">>, <<"h","i","g","h">>, <<"x","h","i","g","h">> >>

(***************************************************************************)
(* Characters and strings.                                                 *)
(***************************************************************************)
UpperCase ==
  <<"A","B","C","D","E","F","G","H","I","J","K","L","M",
    "N","O","P","Q","R","S","T","U","V","W","X","Y","Z">>

LowerCase ==
  <<"a","b","c","d","e","f","g","h","i","j","k","l","m",
    "n","o","p","q","r","s","t","u","v","w","x","y","z">>

Digits == <<"0","1","2","3","4","5","6","7","8","9">>

\* String.prototype.toLowerCase on one character
toLowerChar(c) ==
  IF \E i \in 1..26 : UpperCase[i] = c
    THEN LowerCase[CHOOSE i \in 1..26 : UpperCase[i] = c]
    ELSE c

\* String.prototype.toLowerCase
toLowerCase(s) == [i \in 1..Len(s) |-> toLowerChar(s[i])]

IsLowerLetter(c) == \E i \in 1..26 : LowerCase[i] = c

\* a minimum that forgets its bound
Min_noClamp(a, b) == b

Min(a, b) == IF a < b THEN a ELSE b

Max(a, b) == IF a > b THEN a ELSE b

(***************************************************************************)
(* FuzzyMatcher (pi-tui's fuzzyFilter, consumed by applyFilter).           *)
(* Scores are kept as integers: ten times the matcher's score.             *)
(***************************************************************************)
WordBoundaryChars == {" ", "-", "_", ".", "/", ":"}

\* one left-to-right scan of the text; i, qi are 1-based positions in text and
\* query, last is the 1-based position of the previous match (0: none yet)
RECURSIVE fuzzyScan(_, _, _, _, _, _, _)
fuzzyScan(q, t, i, qi, score, last, run) ==
  IF i > Len(t) \/ qi > Len(q)
    THEN [matches |-> qi > Len(q), score |-> score]
    ELSE IF t[i] # q[qi]
      THEN fuzzyScan(q, t, i + 1, qi, score, last, run)
      ELSE LET consecutive == (last = i - 1)
               run2 == IF consecutive THEN run + 1 ELSE 0
               s1 == IF consecutive THEN score - run2 * 50
                     ELSE IF last > 0 THEN score + (i - last - 1) * 20
                     ELSE score
               s2 == IF i = 1 \/ t[i - 1] \in WordBoundaryChars
                       THEN s1 - 100 ELSE s1
               s3 == s2 + (i - 1)
           IN fuzzyScan(q, t, i + 1, qi + 1, s3, i, run2)

\* does the query occur in the text as an in-order subsequence (case-insensitive),
\* and how good is the match (lower is better)
fuzzyMatch(query, text) ==
  IF Len(query) = 0 THEN [matches |-> TRUE, score |-> 0]
  ELSE IF Len(query) > Len(text) THEN [matches |-> FALSE, score |-> 0]
  ELSE LET r == fuzzyScan(toLowerCase(query), toLowerCase(text), 1, 1, 0, 0, 0)
       IN IF r.matches THEN r ELSE [matches |-> FALSE, score |-> 0]

\* Array.prototype.sort by ascending score; stable
RECURSIVE insertByScore(_, _)
insertByScore(sorted, e) ==
  IF sorted = <<>> THEN <<e>>
  ELSE IF sorted[Len(sorted)].score <= e.score THEN Append(sorted, e)
  ELSE Append(insertByScore(SubSeq(sorted, 1, Len(sorted) - 1), e),
              sorted[Len(sorted)])

RECURSIVE sortByScore(_)
sortByScore(rs) ==
  IF rs = <<>> THEN <<>>
  ELSE insertByScore(sortByScore(SubSeq(rs, 1, Len(rs) - 1)), rs[Len(rs)])

\* the text applyFilter hands to the matcher: `${item.label} ${item.value}`
itemText(item) == item.label \o <<" ">> \o item.value

\* a matcher that ranks every candidate and excludes none
fuzzyFilter_keepsAll(list, query) ==
  LET scored == [i \in 1..Len(list) |->
                   [item |-> list[i], score |-> fuzzyMatch(query, itemText(list[i])).score]]
      ranked == sortByScore(scored)
  IN [i \in 1..Len(ranked) |-> ranked[i].item]

fuzzyFilter(list, query) ==
  LET scored == [i \in 1..Len(list) |->
                   [item |-> list[i], score |-> fuzzyMatch(query, itemText(list[i])).score]]
      matching == SelectSeq(scored, LAMBDA r : fuzzyMatch(query, itemText(r.item)).matches)
      ranked == sortByScore(matching)
  IN [i \in 1..Len(ranked) |-> ranked[i].item]

(***************************************************************************)
(* Allow-list and catalog helpers.                                         *)
(***************************************************************************)
\* a RegExp without the closing "$": the pattern has to match a prefix only
RECURSIVE globTest_unanchored(_, _)
globTest_unanchored(pattern, key) ==
  IF pattern = <<>> THEN TRUE
  ELSE IF Head(pattern) = "*"
    THEN globTest_unanchored(Tail(pattern), key)
         \/ (key # <<>> /\ globTest_unanchored(pattern, Tail(key)))
  ELSE IF Head(pattern) = "?"
    THEN key # <<>> /\ globTest_unanchored(Tail(pattern), Tail(key))
  ELSE key # <<>> /\ Head(key) = Head(pattern)
       /\ globTest_unanchored(Tail(pattern), Tail(key))

\* the RegExp isModelEnabled builds from a pattern: every character literal,
\* except "*" (any run of characters) and "?" (exactly one character); anchored.
\* The keys are identifiers of the catalog: they hold no line terminator, the
\* only characters the "." of the RegExp does not match.
RECURSIVE globTest(_, _)
globTest(pattern, key) ==
  IF pattern = <<>> THEN key = <<>>
  ELSE IF Head(pattern) = "*"
    THEN globTest(Tail(pattern), key)
         \/ (key # <<>> /\ globTest(pattern, Tail(key)))
  ELSE IF Head(pattern) = "?"
    THEN key # <<>> /\ globTest(Tail(pattern), Tail(key))
  ELSE key # <<>> /\ Head(key) = Head(pattern) /\ globTest(Tail(pattern), Tail(key))

HasWildcard(pattern) == \E i \in 1..Len(pattern) : pattern[i] \in {"*", "?"}

\* the lower-cased patterns of the settings; the empty set stands for `undefined`
\* (the source returns undefined exactly when there is no pattern)
getEnabledModelSet(patterns) == {toLowerCase(p) : p \in patterns}

isModelEnabled(provider, modelId, enabled) ==
  IF enabled = {} THEN TRUE
  ELSE LET key == toLowerCase(provider \o <<"/">> \o modelId)
       IN \/ key \in enabled
          \/ \E pattern \in enabled : HasWildcard(pattern) /\ globTest(pattern, key)

\* String.prototype.localeCompare on the names of the catalog: letters compare
\* without case first, punctuation before digits before letters; on a tie the
\* lower-case form comes first
CollationOrder == <<" ", "_", "-", ".", "/", ":">> \o Digits \o LowerCase

charRank(c) ==
  LET l == toLowerChar(c)
  IN IF \E i \in 1..Len(CollationOrder) : CollationOrder[i] = l
       THEN CHOOSE i \in 1..Len(CollationOrder) : CollationOrder[i] = l
       ELSE 0

RECURSIVE compareFrom(_, _, _, _)
compareFrom(a, b, i, tie) ==
  IF i > Len(a) /\ i > Len(b) THEN tie
  ELSE IF i > Len(a) THEN -1
  ELSE IF i > Len(b) THEN 1
  ELSE IF charRank(a[i]) < charRank(b[i]) THEN -1
  ELSE IF charRank(a[i]) > charRank(b[i]) THEN 1
  ELSE compareFrom(a, b, i + 1,
         IF tie # 0 \/ a[i] = b[i] THEN tie
         ELSE IF IsLowerLetter(a[i]) THEN -1 ELSE 1)

localeCompare(a, b) == compareFrom(a, b, 1, 0)

\* Array.prototype.sort((a, b) => a.name.localeCompare(b.name)); stable
RECURSIVE insertByName(_, _)
insertByName(sorted, e) ==
  IF sorted = <<>> THEN <<e>>
  ELSE IF localeCompare(sorted[Len(sorted)].name, e.name) <= 0 THEN Append(sorted, e)
  ELSE Append(insertByName(SubSeq(sorted, 1, Len(sorted) - 1), e),
              sorted[Len(sorted)])

RECURSIVE sortByName(_)
sortByName(xs) ==
  IF xs = <<>> THEN <<>>
  ELSE insertByName(sortByName(SubSeq(xs, 1, Len(xs) - 1)), xs[Len(xs)])

\* ctx.modelRegistry.getAvailable(): the registered models that have credentials
getAvailable(reg) == SelectSeq(reg, LAMBDA m : m.available)

getAvailableEnabledModels(reg, patterns) ==
  LET enabled == getEnabledModelSet(patterns)
  IN SelectSeq(getAvailable(reg), LAMBDA m : isModelEnabled(m.provider, m.id, enabled))

CountProvider(ms, p) == Cardinality({i \in 1..Len(ms) : ms[i].provider = p})

\* a provider list whose counts are those of the registered models, with or
\* without credentials, allowed or not
getProviders_countsRegistered(reg, patterns) ==
  LET ms == getAvailableEnabledModels(reg, patterns)
      firsts == SelectSeq([i \in 1..Len(ms) |-> i],
                  LAMBDA i : \A j \in 1..(i - 1) : ms[j].provider # ms[i].provider)
  IN sortByName([k \in 1..Len(firsts) |->
       [name |-> ms[firsts[k]].provider,
        modelCount |-> CountProvider(reg, ms[firsts[k]].provider)]])

\* the providers of the available, enabled models with their model counts,
\* in Map insertion order (first occurrence), then sorted by name
getProviders(reg, patterns) ==
  LET ms == getAvailableEnabledModels(reg, patterns)
      firsts == SelectSeq([i \in 1..Len(ms) |-> i],
                  LAMBDA i : \A j \in 1..(i - 1) : ms[j].provider # ms[i].provider)
  IN sortByName([k \in 1..Len(firsts) |->
       [name |-> ms[firsts[k]].provider,
        modelCount |-> CountProvider(ms, ms[firsts[k]].provider)]])

getModelsForProvider(reg, patterns, provider) ==
  sortByName(SelectSeq(getAvailableEnabledModels(reg, patterns),
                       LAMBDA m : m.provider = provider))

\* ctx.modelRegistry.find(provider, id): the first registered model with that
\* provider and id, as a sequence of length 0 (undefined) or 1
registryFind(reg, provider, modelId) ==
  LET hits == SelectSeq(reg, LAMBDA m : m.provider = provider /\ m.id = modelId)
  IN IF hits = <<>> THEN <<>> ELSE <<hits[1]>>

(***************************************************************************)
(* The environments the host can present.                                  *)
(***************************************************************************)
anthropic == <<"a","n","t","h","r","o","p","i","c">>

openai == <<"o","p","e","n","a","i">>

ClaudeX == [provider |-> anthropic, id |-> <<"c","l","a","u","d","e","-","x">>,
            name |-> <<"C","l","a","u","d","e"," ","X">>,
            reasoning |-> TRUE, image |-> TRUE, available |-> TRUE]

ClaudeY == [provider |-> anthropic, id |-> <<"c","l","a","u","d","e","-","y">>,
            name |-> <<"C","l","a","u","d","e"," ","Y">>,
            reasoning |-> FALSE, image |-> FALSE, available |-> TRUE]

GptZ == [provider |-> openai, id |-> <<"g","p","t","-","z">>,
         name |-> <<"G","P","T"," ","Z">>,
         reasoning |-> TRUE, image |-> FALSE, available |-> TRUE]

GptOld == [provider |-> openai, id |-> <<"g","p","t","-","o">>,
           name |-> <<"G","P","T"," ","O">>,
           reasoning |-> FALSE, image |-> FALSE, available |-> FALSE]

\* registry contents: two anthropic models and one openai model available;
\* only the openai ones; nothing
Catalogs == { <<GptZ, ClaudeY, GptOld, ClaudeX>>, <<GptOld, GptZ>>, <<>> }

\* enabledModels settings: no allow-list, a "*" glob, an exact entry in mixed
\* case next to a "?" glob in mixed case
AllowLists == { {}, { <<"a","n","t","h","r","o","p","i","c","/","*">> },
                { <<"O","p","e","n","A","I","/","g","p","t","-","o">>,
                  <<"O","p","e","n","A","I","/","?","p","t","-","z">> } }

\* ctx.model and pi.getThinkingLevel() as an invocation finds them
CurrentSettings ==
  { [model |-> <<>>, thinking |-> <<"o","f","f">>],
    [model |-> <<ClaudeX>>, thinking |-> <<"m","e","d","i","u","m">>] }

\* pi.getCommands(): name and source of each registered command
Cmd(name, source) == [name |-> name, source |-> source]

LongCommand(i) ==
  Cmd(<<IF i % 2 = 1 THEN "a" ELSE "c", Digits[(i \div 10) + 1], Digits[(i % 10) + 1]>>,
      "extension")

CommandSets ==
  { <<>>,
    << Cmd(<<"r","e","v","i","e","w">>, "extension"),
       Cmd(<<"s","w","i","t","c","h">>, "extension"),
       Cmd(<<"c","o","m","m","i","t">>, "skill"),
       Cmd(<<"h","e","l","p">>, "builtin") >>,
    << Cmd(<<>>, "extension"), Cmd(<<"l","i","n","t">>, "skill") >>,
    [i \in 1..LongLen |-> LongCommand(i)] }

\* one input event (the `data` handed to handleInput), by what matchesKey and
\* parseKey make of it: a named control key, one raw printable character, the
\* Kitty-protocol sequence of a letter, or a sequence nothing recognises
KeyEvent(kind) == [kind |-> kind, ch |-> ""]

CharEvent(c) == [kind |-> "char", ch |-> c]

KittyEvent(c) == [kind |-> "kitty", ch |-> c]

ControlKeys == {"escape", "ctrl-c", "backspace", "up", "down", "ctrl-p", "ctrl-n", "enter"}

\* the printable characters typed into searchable lists
TypedChars == {"a", "Z"}

SelectInputs ==
  {KeyEvent(k) : k \in ControlKeys} \cup {CharEvent(c) : c \in TypedChars}
    \cup {KittyEvent("a"), KeyEvent("other")}

matchesKey(data, key) == data.kind = key

\* data.length === 1 && data >= " " && data <= "~"
IsRawPrintable(data) == data.kind = "char"

\* the single character parseKey names for the event, as a sequence of length 0
\* or 1: a raw character names itself (an upper-case letter is "shift+x"), a
\* Kitty sequence names its letter, every other event has a longer name
parsedChar(data) ==
  IF data.kind = "kitty" THEN <<data.ch>>
  ELSE IF data.kind = "char" /\ toLowerChar(data.ch) = data.ch THEN <<data.ch>>
  ELSE <<>>

(***************************************************************************)
(* State.                                                                  *)
(***************************************************************************)
VARIABLES
  \* host / external collaborators
  hasUI, registry, enabledModels, ctxModel, thinkingLevel, commands, favouritesFile,
  \* control: openLeaderKey's position, the running flow's position and locals
  lk, pc, locals,
  \* the calls made in this invocation, in order; setTimeout callbacks not yet run
  calls, pendingEnter,
  \* observers of this invocation: where a component's done(null) was called ("":
  \* nowhere), and the values the searchable steps were confirmed with, in order
  cancelledAt, chosen,
  \* the live component and the value its done() was called with
  comp, outcome,
  \* searchableSelect's closure state, and whether its last applyFilter called
  \* fuzzyFilter
  items, searchText, filteredItems, highlightedIndex, scrollOffset, fuzzyCalled,
  \* LeaderKeyOverlay's fields
  entries, view, lkHighlightedIndex,
  \* runFavouriteModels' picker state
  favourites, favHighlightedIndex

envVars == <<hasUI, registry, enabledModels, ctxModel, thinkingLevel, commands, favouritesFile>>

selectVars == <<items, searchText, filteredItems, highlightedIndex, scrollOffset, fuzzyCalled>>

overlayVars == <<entries, view, lkHighlightedIndex>>

favVars == <<favourites, favHighlightedIndex>>

vars == <<envVars, lk, pc, locals, calls, pendingEnter, cancelledAt, chosen, comp, outcome,
          selectVars, overlayVars, favVars>>

\* how many calls of one component's done() the model counts
MaxDoneCalls == 2

\* the value a component's done() was first called with, if it was, and the
\* number of its calls
NoOutcome == [set |-> FALSE, null |-> FALSE, val |-> <<>>, count |-> 0]

NullOutcome == [set |-> TRUE, null |-> TRUE, val |-> <<>>, count |-> 1]

ValueOutcome(v) == [set |-> TRUE, null |-> FALSE, val |-> v, count |-> 1]

\* one entry of the call log
Call(op, sev, msg, a, b) == [op |-> op, sev |-> sev, msg |-> msg, a |-> a, b |-> b]

Notify(msg, sev, a, b) == Call("notify", sev, msg, a, b)

NoLocals ==
  [currentProvider |-> <<>>, selectedProvider |-> <<>>, selectedModelId |-> <<>>,
   selectedModel |-> <<>>, selected |-> <<>>, action |-> "", providers |-> <<>>]

(***************************************************************************)
(* searchableSelect.                                                       *)
(***************************************************************************)
Item(value, label) == [value |-> value, label |-> label]

\* ctx.ui.custom(...) for a searchable list: the closure's initial state
OpenSelect(list) ==
  /\ comp' = "select"
  /\ outcome' = NoOutcome
  /\ items' = list
  /\ searchText' = <<>>
  /\ filteredItems' = list
  /\ highlightedIndex' = 0
  /\ scrollOffset' = 0
  /\ fuzzyCalled' = FALSE

\* the closure state of the live list, with what done() was called with
SelectState ==
  [comp |-> comp, outcome |-> outcome, items |-> items,
   searchText |-> searchText, filteredItems |-> filteredItems,
   highlightedIndex |-> highlightedIndex, scrollOffset |-> scrollOffset,
   fuzzyCalled |-> fuzzyCalled]

\* done(o): the promise of ctx.ui.custom resolves and the overlay is discarded;
\* a promise that is resolved keeps its value, the call is counted
selectDone(st, o) ==
  IF st.outcome.set
    THEN [st EXCEPT !.outcome.count = @ + 1]
    ELSE [st EXCEPT !.comp = "none", !.outcome = o, !.items = <<>>, !.searchText = <<>>,
                    !.filteredItems = <<>>, !.highlightedIndex = 0, !.scrollOffset = 0,
                    !.fuzzyCalled = FALSE]

\* a filter that keeps the scroll position
applyFilter_keepsScroll(st, text) ==
  [st EXCEPT !.searchText = text,
             !.fuzzyCalled = (text # <<>>),
             !.filteredItems = IF text = <<>> THEN st.items
                               ELSE fuzzyFilter(st.items, text),
             !.highlightedIndex = 0]

\* a filter that narrows the rows already filtered instead of the candidates
applyFilter_narrowsFiltered(st, text) ==
  [st EXCEPT !.searchText = text,
             !.fuzzyCalled = (text # <<>>),
             !.filteredItems = IF text = <<>> THEN st.filteredItems
                               ELSE fuzzyFilter(st.filteredItems, text),
             !.highlightedIndex = 0,
             !.scrollOffset = 0]

\* a filter that hands the empty query to the matcher as well
applyFilter_alwaysMatches(st, text) ==
  [st EXCEPT !.searchText = text,
             !.fuzzyCalled = TRUE,
             !.filteredItems = fuzzyFilter(st.items, text),
             !.highlightedIndex = 0,
             !.scrollOffset = 0]

\* applyFilter, after searchText became text; fuzzyCalled records whether this
\* run called fuzzyFilter
applyFilter(st, text) ==
  [st EXCEPT !.searchText = text,
             !.fuzzyCalled = (text # <<>>),
             !.filteredItems = IF text = <<>> THEN st.items
                               ELSE fuzzyFilter(st.items, text),
             !.highlightedIndex = 0,
             !.scrollOffset = 0]

\* a scroll that puts the highlighted row at the top of the window
ensureVisible_topAligns(st) ==
  IF st.highlightedIndex < st.scrollOffset
    THEN [st EXCEPT !.scrollOffset = st.highlightedIndex]
  ELSE IF st.highlightedIndex >= st.scrollOffset + MAX_VISIBLE
    THEN [st EXCEPT !.scrollOffset = st.highlightedIndex]
  ELSE st

ensureVisible(st) ==
  IF st.highlightedIndex < st.scrollOffset
    THEN [st EXCEPT !.scrollOffset = st.highlightedIndex]
  ELSE IF st.highlightedIndex >= st.scrollOffset + MAX_VISIBLE
    THEN [st EXCEPT !.scrollOffset = st.highlightedIndex - MAX_VISIBLE + 1]
  ELSE st

\* a handler whose backspace on an empty query cancels, as the quick-pick does
searchableSelectHandleInput_backspaceCancels(st, data) ==
  IF matchesKey(data, "escape") \/ matchesKey(data, "ctrl-c")
    THEN selectDone(st, NullOutcome)
  ELSE IF matchesKey(data, "backspace")
    THEN IF Len(st.searchText) > 0
           THEN applyFilter(st, SubSeq(st.searchText, 1, Len(st.searchText) - 1))
           ELSE selectDone(st, NullOutcome)
  ELSE IF matchesKey(data, "up") \/ matchesKey(data, "ctrl-p")
    THEN ensureVisible([st EXCEPT !.highlightedIndex = Max(0, st.highlightedIndex - 1)])
  ELSE IF matchesKey(data, "down") \/ matchesKey(data, "ctrl-n")
    THEN ensureVisible([st EXCEPT !.highlightedIndex =
                          Min(Len(st.filteredItems) - 1, st.highlightedIndex + 1)])
  ELSE IF matchesKey(data, "enter")
    THEN IF Len(st.filteredItems) > 0 /\ st.highlightedIndex < Len(st.filteredItems)
           THEN selectDone(st, ValueOutcome(st.filteredItems[st.highlightedIndex + 1].value))
           ELSE st
  ELSE IF IsRawPrintable(data)
    THEN applyFilter(st, Append(st.searchText, data.ch))
  ELSE st

\* a handler whose enter confirms the first row
searchableSelectHandleInput_enterFirstRow(st, data) ==
  IF matchesKey(data, "escape") \/ matchesKey(data, "ctrl-c")
    THEN selectDone(st, NullOutcome)
  ELSE IF matchesKey(data, "backspace")
    THEN IF Len(st.searchText) > 0
           THEN applyFilter(st, SubSeq(st.searchText, 1, Len(st.searchText) - 1))
           ELSE st
  ELSE IF matchesKey(data, "up") \/ matchesKey(data, "ctrl-p")
    THEN ensureVisible([st EXCEPT !.highlightedIndex = Max(0, st.highlightedIndex - 1)])
  ELSE IF matchesKey(data, "down") \/ matchesKey(data, "ctrl-n")
    THEN ensureVisible([st EXCEPT !.highlightedIndex =
                          Min(Len(st.filteredItems) - 1, st.highlightedIndex + 1)])
  ELSE IF matchesKey(data, "enter")
    THEN IF Len(st.filteredItems) > 0 /\ st.highlightedIndex < Len(st.filteredItems)
           THEN selectDone(st, ValueOutcome(st.filteredItems[1].value))
           ELSE st
  ELSE IF IsRawPrintable(data)
    THEN applyFilter(st, Append(st.searchText, data.ch))
  ELSE st

\* a handler that appends the character parseKey names for any other event
searchableSelectHandleInput_parsesKitty(st, data) ==
  IF matchesKey(data, "escape") \/ matchesKey(data, "ctrl-c")
    THEN selectDone(st, NullOutcome)
  ELSE IF matchesKey(data, "backspace")
    THEN IF Len(st.searchText) > 0
           THEN applyFilter(st, SubSeq(st.searchText, 1, Len(st.searchText) - 1))
           ELSE st
  ELSE IF matchesKey(data, "up") \/ matchesKey(data, "ctrl-p")
    THEN ensureVisible([st EXCEPT !.highlightedIndex = Max(0, st.highlightedIndex - 1)])
  ELSE IF matchesKey(data, "down") \/ matchesKey(data, "ctrl-n")
    THEN ensureVisible([st EXCEPT !.highlightedIndex =
                          Min(Len(st.filteredItems) - 1, st.highlightedIndex + 1)])
  ELSE IF matchesKey(data, "enter")
    THEN IF Len(st.filteredItems) > 0 /\ st.highlightedIndex < Len(st.filteredItems)
           THEN selectDone(st, ValueOutcome(st.filteredItems[st.highlightedIndex + 1].value))
           ELSE st
  ELSE IF IsRawPrintable(data)
    THEN applyFilter(st, Append(st.searchText, data.ch))
  ELSE IF parsedChar(data) # <<>>
    THEN applyFilter(st, Append(st.searchText, parsedChar(data)[1]))
  ELSE st

\* handleInput of searchableSelect: the first matching class handles the event
searchableSelectHandleInput(st, data) ==
  IF matchesKey(data, "escape") \/ matchesKey(data, "ctrl-c")
    THEN selectDone(st, NullOutcome)
  ELSE IF matchesKey(data, "backspace")
    THEN IF Len(st.searchText) > 0
           THEN applyFilter(st, SubSeq(st.searchText, 1, Len(st.searchText) - 1))
           ELSE st
  ELSE IF matchesKey(data, "up") \/ matchesKey(data, "ctrl-p")
    THEN ensureVisible([st EXCEPT !.highlightedIndex = Max(0, st.highlightedIndex - 1)])
  ELSE IF matchesKey(data, "down") \/ matchesKey(data, "ctrl-n")
    THEN ensureVisible([st EXCEPT !.highlightedIndex =
                          Min(Len(st.filteredItems) - 1, st.highlightedIndex + 1)])
  ELSE IF matchesKey(data, "enter")
    THEN IF Len(st.filteredItems) > 0 /\ st.highlightedIndex < Len(st.filteredItems)
           THEN selectDone(st, ValueOutcome(st.filteredItems[st.highlightedIndex + 1].value))
           ELSE st
  ELSE IF IsRawPrintable(data)
    THEN applyFilter(st, Append(st.searchText, data.ch))
  ELSE st

\* one row of the item section of a rendered frame: the "no matches" row, an
\* "N more" row above or below the window (n is N), or the row of the
\* candidate filteredItems[index], with its "> " marker if highlighted
Row(kind, n, index, highlighted) ==
  [kind |-> kind, n |-> n, index |-> index, highlighted |-> highlighted]

\* a frame whose row below counts from the size of the window
renderItems_countsFromWindow(st) ==
  IF Len(st.filteredItems) = 0 THEN <<Row("no matches", 0, 0, FALSE)>>
  ELSE LET visibleEnd == Min(st.scrollOffset + MAX_VISIBLE, Len(st.filteredItems))
           remaining == Len(st.filteredItems) - MAX_VISIBLE
       IN (IF st.scrollOffset > 0 THEN <<Row("above", st.scrollOffset, 0, FALSE)>> ELSE <<>>)
          \o [k \in 1..(visibleEnd - st.scrollOffset) |->
                Row("item", 0, st.scrollOffset + k - 1,
                    st.scrollOffset + k - 1 = st.highlightedIndex)]
          \o (IF remaining > 0 THEN <<Row("below", remaining, 0, FALSE)>> ELSE <<>>)

\* render: the rows between the two rules of the frame
renderItems(st) ==
  IF Len(st.filteredItems) = 0 THEN <<Row("no matches", 0, 0, FALSE)>>
  ELSE LET visibleEnd == Min(st.scrollOffset + MAX_VISIBLE, Len(st.filteredItems))
           remaining == Len(st.filteredItems) - visibleEnd
       IN (IF st.scrollOffset > 0 THEN <<Row("above", st.scrollOffset, 0, FALSE)>> ELSE <<>>)
          \o [k \in 1..(visibleEnd - st.scrollOffset) |->
                Row("item", 0, st.scrollOffset + k - 1,
                    st.scrollOffset + k - 1 = st.highlightedIndex)]
          \o (IF remaining > 0 THEN <<Row("below", remaining, 0, FALSE)>> ELSE <<>>)

\* one input event is delivered to the live list
SelectKey ==
  \E data \in SelectInputs :
    /\ comp = "select"
    /\ data.kind = "char" => Len(searchText) < MaxQuery
    /\ \E r \in {searchableSelectHandleInput(SelectState, data)} :
          /\ comp' = r.comp
          /\ outcome' = r.outcome
          /\ cancelledAt' = IF r.outcome.null THEN pc ELSE cancelledAt
          /\ chosen' = IF r.outcome.set /\ ~r.outcome.null
                          THEN Append(chosen, r.outcome.val) ELSE chosen
          /\ items' = r.items
          /\ searchText' = r.searchText
          /\ filteredItems' = r.filteredItems
          /\ highlightedIndex' = r.highlightedIndex
          /\ scrollOffset' = r.scrollOffset
          /\ fuzzyCalled' = r.fuzzyCalled
    /\ UNCHANGED <<envVars, lk, pc, locals, calls, pendingEnter, overlayVars, favVars>>

(***************************************************************************)
(* runModelSwitcher and runThinkingPicker.                                 *)
(***************************************************************************)
CurrentBadge == <<" ","(","c","u","r","r","e","n","t",")">>

\* `if (!x) return` on the result of a searchable step: null and "" are falsy
Falsy(o) == o.null \/ o.val = <<>>

\* ctx.model?.provider and ctx.model?.id, as sequences of length 0 or 1
modelProvider(cm) == IF cm = <<>> THEN <<>> ELSE <<cm[1].provider>>

modelId(cm) == IF cm = <<>> THEN <<>> ELSE <<cm[1].id>>

providerItems(providers, currentProvider) ==
  [i \in 1..Len(providers) |->
     Item(providers[i].name,
          providers[i].name
            \o (IF <<providers[i].name>> = currentProvider THEN CurrentBadge ELSE <<>>))]

modelItems(models, currentProvider, currentModelId) ==
  [i \in 1..Len(models) |->
     Item(models[i].id,
          models[i].name
            \o (IF <<models[i].provider>> = currentProvider /\ <<models[i].id>> = currentModelId
                  THEN CurrentBadge ELSE <<>>))]

thinkingItems(currentThinking) ==
  [i \in 1..Len(ALL_THINKING_LEVELS) |->
     Item(ALL_THINKING_LEVELS[i],
          ALL_THINKING_LEVELS[i]
            \o (IF ALL_THINKING_LEVELS[i] = currentThinking THEN CurrentBadge ELSE <<>>))]

\* the flow function returns, having made the calls cs
Finish(cs) ==
  /\ pc' = "idle"
  /\ locals' = NoLocals
  /\ calls' = calls \o cs
  /\ outcome' = NoOutcome
  /\ UNCHANGED <<comp, selectVars>>

\* the flow function opens a searchable step and awaits it
Prompt(nextpc, newLocals, cs, title, list) ==
  /\ pc' = nextpc
  /\ locals' = newLocals
  /\ calls' = calls \o cs \o <<Call("searchableSelect", "", title, <<>>, <<>>)>>
  /\ OpenSelect(list)

\* pi.setModel(model), which reported ok
SetModelCall(model, ok) ==
  Call("setModel", "", IF ok THEN "true" ELSE "false", model.provider, model.id)

\* an Apply that sets the thinking level before it looks at what setModel reported
Apply_levelBeforeCheck(model, supportsReasoning, selectedThinking, ok) ==
  LET level == IF supportsReasoning
                 THEN <<Call("setThinkingLevel", "", "", selectedThinking, <<>>)>>
                 ELSE <<>>
  IN IF ~ok
       THEN /\ Finish(<<SetModelCall(model, FALSE)>> \o level
                      \o <<Notify("No API key available", "warning",
                                  model.provider, model.id)>>)
            /\ thinkingLevel' = IF supportsReasoning THEN selectedThinking ELSE thinkingLevel
            /\ UNCHANGED ctxModel
       ELSE /\ Finish(<<SetModelCall(model, TRUE)>> \o level
                      \o <<Notify("Switched to", "info", model.name,
                                  IF supportsReasoning THEN selectedThinking ELSE <<>>)>>)
            /\ ctxModel' = <<model>>
            /\ thinkingLevel' = IF supportsReasoning THEN selectedThinking ELSE thinkingLevel

\* an Apply that sets the thinking level the session already had
Apply_currentLevel(model, supportsReasoning, selectedThinking, ok) ==
  IF ~ok
    THEN /\ Finish(<<SetModelCall(model, FALSE),
                     Notify("No API key available", "warning", model.provider, model.id)>>)
         /\ UNCHANGED <<ctxModel, thinkingLevel>>
    ELSE /\ Finish(<<SetModelCall(model, TRUE)>>
                   \o (IF supportsReasoning
                         THEN <<Call("setThinkingLevel", "", "", thinkingLevel, <<>>)>>
                         ELSE <<>>)
                   \o <<Notify("Switched to", "info", model.name,
                               IF supportsReasoning THEN thinkingLevel ELSE <<>>)>>)
         /\ ctxModel' = <<model>>
         /\ UNCHANGED thinkingLevel

\* the Apply section of runModelSwitcher: pi.setModel reports ok
\* an Apply that announces the switch before it sets the thinking level
Apply_notifiesBeforeLevel(model, supportsReasoning, selectedThinking, ok) ==
  IF ~ok
    THEN /\ Finish(<<SetModelCall(model, FALSE),
                     Notify("No API key available", "warning", model.provider, model.id)>>)
         /\ UNCHANGED <<ctxModel, thinkingLevel>>
    ELSE /\ Finish(<<SetModelCall(model, TRUE),
                     Notify("Switched to", "info", model.name,
                            IF supportsReasoning THEN selectedThinking ELSE <<>>)>>
                   \o (IF supportsReasoning
                         THEN <<Call("setThinkingLevel", "", "", selectedThinking, <<>>)>>
                         ELSE <<>>))
         /\ ctxModel' = <<model>>
         /\ thinkingLevel' = IF supportsReasoning THEN selectedThinking ELSE thinkingLevel

Apply(model, supportsReasoning, selectedThinking, ok) ==
  IF ~ok
    THEN /\ Finish(<<SetModelCall(model, FALSE),
                     Notify("No API key available", "warning", model.provider, model.id)>>)
         /\ UNCHANGED <<ctxModel, thinkingLevel>>
    ELSE /\ Finish(<<SetModelCall(model, TRUE)>>
                   \o (IF supportsReasoning
                         THEN <<Call("setThinkingLevel", "", "", selectedThinking, <<>>)>>
                         ELSE <<>>)
                   \o <<Notify("Switched to", "info", model.name,
                               IF supportsReasoning THEN selectedThinking ELSE <<>>)>>)
         /\ ctxModel' = <<model>>
         /\ thinkingLevel' = IF supportsReasoning THEN selectedThinking ELSE thinkingLevel

\* a first step that opens the provider list even when it is empty
runModelSwitcherStart_opensEmptyList ==
  /\ pc = "switch:entry"
  /\ IF ~hasUI THEN Finish(<<>>)
     ELSE LET providers == getProviders(registry, enabledModels)
              currentProvider == modelProvider(ctxModel)
          IN Prompt("switch:provider",
                    [NoLocals EXCEPT !.currentProvider = currentProvider,
                                             !.providers = providers],
                    <<>>, "Select Provider",
                    providerItems(providers, currentProvider))
  /\ UNCHANGED <<envVars, lk, cancelledAt, chosen, pendingEnter, overlayVars, favVars>>

\* a flow that looks up the models of the first provider while it opens the
\* provider step
runModelSwitcherStart_prefetchesModels ==
  /\ pc = "switch:entry"
  /\ IF ~hasUI THEN Finish(<<>>)
     ELSE LET providers == getProviders(registry, enabledModels)
              currentProvider == modelProvider(ctxModel)
          IN IF Len(providers) = 0
               THEN Finish(<<Notify("No providers available", "warning", <<>>, <<>>)>>)
               ELSE Prompt("switch:provider",
                           [NoLocals EXCEPT !.currentProvider = currentProvider,
                                             !.providers = providers],
                           <<Call("getModelsForProvider", "", "", providers[1].name, <<>>)>>,
                           "Select Provider",
                           providerItems(providers, currentProvider))
  /\ UNCHANGED <<envVars, lk, cancelledAt, chosen, pendingEnter, overlayVars, favVars>>

\* runModelSwitcher up to the first await: the provider step
runModelSwitcherStart ==
  /\ pc = "switch:entry"
  /\ IF ~hasUI THEN Finish(<<>>)
     ELSE LET providers == getProviders(registry, enabledModels)
              currentProvider == modelProvider(ctxModel)
          IN IF Len(providers) = 0
               THEN Finish(<<Notify("No providers available", "warning", <<>>, <<>>)>>)
               ELSE Prompt("switch:provider",
                           [NoLocals EXCEPT !.currentProvider = currentProvider,
                                             !.providers = providers],
                           <<>>, "Select Provider",
                           providerItems(providers, currentProvider))
  /\ UNCHANGED <<envVars, lk, cancelledAt, chosen, pendingEnter, overlayVars, favVars>>

\* a provider step whose result is looked up before it is tested
runModelSwitcherProviderChosen_lookupFirst ==
  /\ pc = "switch:provider"
  /\ outcome.set
  /\ LET selectedProvider == outcome.val
         lookup == Call("getModelsForProvider", "", "", selectedProvider, <<>>)
         models == getModelsForProvider(registry, enabledModels, selectedProvider)
     IN IF Falsy(outcome) THEN Finish(<<lookup>>)
        ELSE IF Len(models) = 0
          THEN Finish(<<lookup,
                        Notify("No models found for provider", "warning",
                               selectedProvider, <<>>)>>)
        ELSE Prompt("switch:model",
                    [locals EXCEPT !.selectedProvider = selectedProvider],
                    <<lookup>>, "Select Model",
                    modelItems(models, locals.currentProvider, modelId(ctxModel)))
  /\ UNCHANGED <<envVars, lk, cancelledAt, chosen, pendingEnter, overlayVars, favVars>>

\* the provider step resolved: the model step
runModelSwitcherProviderChosen ==
  /\ pc = "switch:provider"
  /\ outcome.set
  /\ IF Falsy(outcome) THEN Finish(<<>>)
     ELSE LET selectedProvider == outcome.val
              lookup == Call("getModelsForProvider", "", "", selectedProvider, <<>>)
              models == getModelsForProvider(registry, enabledModels, selectedProvider)
          IN IF Len(models) = 0
               THEN Finish(<<lookup,
                             Notify("No models found for provider", "warning",
                                    selectedProvider, <<>>)>>)
               ELSE Prompt("switch:model",
                           [locals EXCEPT !.selectedProvider = selectedProvider],
                           <<lookup>>, "Select Model",
                           modelItems(models, locals.currentProvider, modelId(ctxModel)))
  /\ UNCHANGED <<envVars, lk, cancelledAt, chosen, pendingEnter, overlayVars, favVars>>

\* a model step that returns in silence when the chosen model is not found
runModelSwitcherModelChosen_silentLookup ==
  /\ pc = "switch:model"
  /\ outcome.set
  /\ IF Falsy(outcome)
       THEN Finish(<<>>) /\ UNCHANGED <<ctxModel, thinkingLevel>>
     ELSE LET selectedModelId == outcome.val
              selectedModel == registryFind(registry, locals.selectedProvider, selectedModelId)
          IN IF selectedModel = <<>>
               THEN Finish(<<>>) /\ UNCHANGED <<ctxModel, thinkingLevel>>
             ELSE IF selectedModel[1].reasoning
               THEN /\ Prompt("switch:thinking",
                              [locals EXCEPT !.selectedModelId = selectedModelId,
                                             !.selectedModel = selectedModel],
                              <<>>, "Thinking Level", thinkingItems(thinkingLevel))
                    /\ UNCHANGED <<ctxModel, thinkingLevel>>
             ELSE \E ok \in BOOLEAN : Apply(selectedModel[1], FALSE, thinkingLevel, ok)
  /\ UNCHANGED <<hasUI, registry, enabledModels, commands, favouritesFile,
                 lk, cancelledAt, chosen, pendingEnter, overlayVars, favVars>>

\* a model step that asks for the thinking level of every model
runModelSwitcherModelChosen_alwaysAsksLevel ==
  /\ pc = "switch:model"
  /\ outcome.set
  /\ IF Falsy(outcome)
       THEN Finish(<<>>)
     ELSE LET selectedModelId == outcome.val
              selectedModel == registryFind(registry, locals.selectedProvider, selectedModelId)
          IN IF selectedModel = <<>>
               THEN Finish(<<Notify("Model not found", "error",
                                    locals.selectedProvider, selectedModelId)>>)
               ELSE Prompt("switch:thinking",
                           [locals EXCEPT !.selectedModelId = selectedModelId,
                                          !.selectedModel = selectedModel],
                           <<>>, "Thinking Level", thinkingItems(thinkingLevel))
  /\ UNCHANGED <<envVars, lk, cancelledAt, chosen, pendingEnter, overlayVars, favVars>>

\* the model step resolved: the thinking-level step, or Apply without it
runModelSwitcherModelChosen ==
  /\ pc = "switch:model"
  /\ outcome.set
  /\ IF Falsy(outcome)
       THEN Finish(<<>>) /\ UNCHANGED <<ctxModel, thinkingLevel>>
     ELSE LET selectedModelId == outcome.val
              selectedModel == registryFind(registry, locals.selectedProvider, selectedModelId)
          IN IF selectedModel = <<>>
               THEN /\ Finish(<<Notify("Model not found", "error",
                                       locals.selectedProvider, selectedModelId)>>)
                    /\ UNCHANGED <<ctxModel, thinkingLevel>>
             ELSE IF selectedModel[1].reasoning
               THEN /\ Prompt("switch:thinking",
                              [locals EXCEPT !.selectedModelId = selectedModelId,
                                             !.selectedModel = selectedModel],
                              <<>>, "Thinking Level", thinkingItems(thinkingLevel))
                    /\ UNCHANGED <<ctxModel, thinkingLevel>>
             ELSE \E ok \in BOOLEAN : Apply(selectedModel[1], FALSE, thinkingLevel, ok)
  /\ UNCHANGED <<hasUI, registry, enabledModels, commands, favouritesFile,
                 lk, cancelledAt, chosen, pendingEnter, overlayVars, favVars>>

\* a thinking-level step whose cancellation keeps the level and applies the model
runModelSwitcherThinkingChosen_cancelKeepsLevel ==
  /\ pc = "switch:thinking"
  /\ outcome.set
  /\ \E ok \in BOOLEAN :
       Apply(locals.selectedModel[1], TRUE,
             IF Falsy(outcome) THEN thinkingLevel ELSE outcome.val, ok)
  /\ UNCHANGED <<hasUI, registry, enabledModels, commands, favouritesFile,
                 lk, cancelledAt, chosen, pendingEnter, overlayVars, favVars>>

\* the thinking-level step resolved: Apply
runModelSwitcherThinkingChosen ==
  /\ pc = "switch:thinking"
  /\ outcome.set
  /\ IF Falsy(outcome)
       THEN Finish(<<>>) /\ UNCHANGED <<ctxModel, thinkingLevel>>
       ELSE \E ok \in BOOLEAN : Apply(locals.selectedModel[1], TRUE, outcome.val, ok)
  /\ UNCHANGED <<hasUI, registry, enabledModels, commands, favouritesFile,
                 lk, cancelledAt, chosen, pendingEnter, overlayVars, favVars>>

\* runThinkingPicker up to its await
runThinkingPickerStart ==
  /\ pc = "thinking:entry"
  /\ IF ~hasUI THEN Finish(<<>>)
     ELSE Prompt("thinking:pick", NoLocals, <<>>, "Select Thinking Level",
                 thinkingItems(thinkingLevel))
  /\ UNCHANGED <<envVars, lk, cancelledAt, chosen, pendingEnter, overlayVars, favVars>>

\* a picker that reports its cancellation
runThinkingPickerChosen_notifiesCancel ==
  /\ pc = "thinking:pick"
  /\ outcome.set
  /\ IF Falsy(outcome)
       THEN /\ Finish(<<Notify("Thinking level unchanged", "info", <<>>, <<>>)>>)
            /\ UNCHANGED thinkingLevel
       ELSE /\ Finish(<<Call("setThinkingLevel", "", "", outcome.val, <<>>),
                        Notify("Thinking", "info", outcome.val, <<>>)>>)
            /\ thinkingLevel' = outcome.val
  /\ UNCHANGED <<hasUI, registry, enabledModels, ctxModel, commands, favouritesFile,
                 lk, cancelledAt, chosen, pendingEnter, overlayVars, favVars>>

\* the picker resolved: apply the level
runThinkingPickerChosen ==
  /\ pc = "thinking:pick"
  /\ outcome.set
  /\ IF Falsy(outcome)
       THEN Finish(<<>>) /\ UNCHANGED thinkingLevel
       ELSE /\ Finish(<<Call("setThinkingLevel", "", "", outcome.val, <<>>),
                        Notify("Thinking", "info", outcome.val, <<>>)>>)
            /\ thinkingLevel' = outcome.val
  /\ UNCHANGED <<hasUI, registry, enabledModels, ctxModel, commands, favouritesFile,
                 lk, cancelledAt, chosen, pendingEnter, overlayVars, favVars>>

\* the registry changes while a flow awaits the user
RegistryChange ==
  /\ pc \in {"switch:provider", "switch:model", "switch:thinking", "fav:pick"}
  /\ comp # "none"
  /\ registry' \in Catalogs \ {registry}
  /\ UNCHANGED <<hasUI, enabledModels, ctxModel, thinkingLevel, commands, favouritesFile,
                 lk, pc, locals, calls, cancelledAt, chosen, pendingEnter, comp, outcome,
                 selectVars, overlayVars, favVars>>

(***************************************************************************)
(* The host: the registered commands and shortcuts.                        *)
(***************************************************************************)
\* the host state an invocation finds
ChooseEnvironment ==
  /\ hasUI' \in BOOLEAN
  /\ registry' \in Catalogs
  /\ enabledModels' \in AllowLists
  /\ \E cur \in CurrentSettings : ctxModel' = cur.model /\ thinkingLevel' = cur.thinking

HostIdle == pc = "idle" /\ lk = "none" /\ pendingEnter = 0

\* the "switch" command or Ctrl+Shift+M
HostSwitch ==
  /\ HostIdle
  /\ ChooseEnvironment
  /\ pc' = "switch:entry"
  /\ calls' = <<>>
  /\ cancelledAt' = ""
  /\ chosen' = <<>>
  /\ UNCHANGED <<commands, favouritesFile, lk, locals, pendingEnter, comp, outcome,
                 selectVars, overlayVars, favVars>>

(***************************************************************************)
(* Favourite models: the preset file and the quick-pick overlay.           *)
(***************************************************************************)
MAX_FAVOURITES == 8

\* a JSON value of the preset file, as far as the code tells values apart
JStr(chars) == [t |-> "string", s |-> chars]

JNum == [t |-> "number", s |-> <<>>]

JAbsent == [t |-> "undefined", s |-> <<>>]

Fav(key, label, provider, model, thinking) ==
  [key |-> key, label |-> label, provider |-> provider, model |-> model,
   thinking |-> thinking]

FavClaude ==
  Fav(JStr(<<"g">>), JStr(<<"C","l","a","u","d","e">>), JStr(anthropic),
      JStr(ClaudeX.id), JStr(<<"h","i","g","h">>))

FavGpt ==
  Fav(JStr(<<"2">>), JStr(<<"G","P","T">>), JStr(openai), JStr(GptZ.id), JAbsent)

\* an upper-case key that repeats the key of FavClaude, and a level that is none
FavUltra ==
  Fav(JStr(<<"G">>), JStr(<<"U","l","t","r","a">>), JStr(anthropic),
      JStr(ClaudeY.id), JStr(<<"u","l","t","r","a">>))

FavLongKey ==
  Fav(JStr(<<"a","b">>), JStr(<<"B","a","d">>), JStr(openai), JStr(GptZ.id), JAbsent)

FavNoLabel == Fav(JStr(<<"n">>), JAbsent, JStr(openai), JStr(GptZ.id), JAbsent)

FavNumberKey == Fav(JNum, JStr(<<"N","u","m">>), JStr(openai), JStr(GptZ.id), JAbsent)

FavNumbered(i) ==
  Fav(JStr(<<Digits[i + 1]>>), JStr(<<"P", Digits[i + 1]>>), JStr(openai),
      JStr(GptZ.id), JStr(<<"l","o","w">>))

\* what reading and parsing favourite-models.json gives: an error (unreadable
\* or not JSON), a value that is no array, or an array
FavouriteFiles ==
  { [kind |-> "error", list |-> <<>>],
    [kind |-> "object", list |-> <<>>],
    [kind |-> "array", list |-> <<>>],
    [kind |-> "array", list |-> <<FavLongKey, FavClaude, FavNoLabel, FavGpt,
                                  FavNumberKey, FavUltra>>],
    [kind |-> "array",
     list |-> <<FavLongKey>> \o [i \in 1..(MAX_FAVOURITES + 1) |-> FavNumbered(i)]] }

IsString(v) == v.t = "string"

\* a load that cuts the list before it drops the malformed entries
loadFavourites_sliceFirst(file) ==
  IF file.kind # "array" THEN <<>>
  ELSE SelectSeq(SubSeq(file.list, 1, Min(MAX_FAVOURITES, Len(file.list))),
                 LAMBDA e : /\ IsString(e.key)
                            /\ Len(e.key.s) = 1
                            /\ IsString(e.label)
                            /\ IsString(e.provider)
                            /\ IsString(e.model))

loadFavourites(file) ==
  IF file.kind # "array" THEN <<>>
  ELSE LET valid == SelectSeq(file.list,
                      LAMBDA e : /\ IsString(e.key)
                                 /\ Len(e.key.s) = 1
                                 /\ IsString(e.label)
                                 /\ IsString(e.provider)
                                 /\ IsString(e.model))
       IN SubSeq(valid, 1, Min(MAX_FAVOURITES, Len(valid)))

\* JavaScript truthiness of a JSON value
Truthy(v) == (v.t = "string" /\ v.s # <<>>) \/ v.t = "number"

IsThinkingLevel(v) ==
  v.t = "string" /\ \E i \in 1..Len(ALL_THINKING_LEVELS) : ALL_THINKING_LEVELS[i] = v.s

OpenQuickPick(favs) ==
  /\ comp' = "quickpick"
  /\ outcome' = NoOutcome
  /\ favourites' = favs
  /\ favHighlightedIndex' = 0

\* the picker's state, with what done() was called with
QuickPickState ==
  [comp |-> comp, outcome |-> outcome,
   favourites |-> favourites, highlightedIndex |-> favHighlightedIndex]

quickPickDone(st, o) ==
  IF st.outcome.set
    THEN [st EXCEPT !.outcome.count = @ + 1]
    ELSE [st EXCEPT !.comp = "none", !.outcome = o, !.favourites = <<>>,
                    !.highlightedIndex = 0]

\* a search that returns the last favourite with the pressed key
findFavourite_lastWins(favs, pressedKey) ==
  LET hits == SelectSeq(favs, LAMBDA f : toLowerCase(f.key.s) = <<pressedKey>>)
  IN IF hits = <<>> THEN <<>> ELSE <<hits[Len(hits)]>>

\* the first favourite whose key is the pressed key, as a sequence of length 0 or 1
findFavourite(favs, pressedKey) ==
  LET hits == SelectSeq(favs, LAMBDA f : toLowerCase(f.key.s) = <<pressedKey>>)
  IN IF hits = <<>> THEN <<>> ELSE <<hits[1]>>

\* a picker whose backspace does nothing, as in the searchable list
quickPickHandleInput_backspaceIgnored(st, data) ==
  IF matchesKey(data, "escape") \/ matchesKey(data, "ctrl-c")
    THEN quickPickDone(st, NullOutcome)
  ELSE IF matchesKey(data, "backspace")
    THEN st
  ELSE IF matchesKey(data, "up") \/ matchesKey(data, "ctrl-p")
    THEN [st EXCEPT !.highlightedIndex = Max(0, st.highlightedIndex - 1)]
  ELSE IF matchesKey(data, "down") \/ matchesKey(data, "ctrl-n")
    THEN [st EXCEPT !.highlightedIndex =
            Min(Len(st.favourites) - 1, st.highlightedIndex + 1)]
  ELSE IF matchesKey(data, "enter")
    THEN IF st.highlightedIndex >= 0 /\ st.highlightedIndex < Len(st.favourites)
           THEN quickPickDone(st, ValueOutcome(st.favourites[st.highlightedIndex + 1]))
           ELSE st
  ELSE LET keyChar == IF parsedChar(data) # <<>>
                        THEN <<toLowerChar(parsedChar(data)[1])>> ELSE <<>>
           rawChar == IF IsRawPrintable(data) THEN <<toLowerChar(data.ch)>> ELSE <<>>
           pressedKey == IF keyChar # <<>> THEN keyChar ELSE rawChar
           match == IF pressedKey = <<>> THEN <<>>
                    ELSE findFavourite(st.favourites, pressedKey[1])
       IN IF match # <<>> THEN quickPickDone(st, ValueOutcome(match[1])) ELSE st

\* a picker whose enter looks the highlighted row up by its key
quickPickHandleInput_enterByKey(st, data) ==
  IF matchesKey(data, "escape") \/ matchesKey(data, "ctrl-c")
    THEN quickPickDone(st, NullOutcome)
  ELSE IF matchesKey(data, "backspace")
    THEN quickPickDone(st, NullOutcome)
  ELSE IF matchesKey(data, "up") \/ matchesKey(data, "ctrl-p")
    THEN [st EXCEPT !.highlightedIndex = Max(0, st.highlightedIndex - 1)]
  ELSE IF matchesKey(data, "down") \/ matchesKey(data, "ctrl-n")
    THEN [st EXCEPT !.highlightedIndex =
            Min(Len(st.favourites) - 1, st.highlightedIndex + 1)]
  ELSE IF matchesKey(data, "enter")
    THEN IF st.highlightedIndex >= 0 /\ st.highlightedIndex < Len(st.favourites)
           THEN quickPickDone(st, ValueOutcome(
                  findFavourite(st.favourites,
                    toLowerCase(st.favourites[st.highlightedIndex + 1].key.s)[1])[1]))
           ELSE st
  ELSE LET keyChar == IF parsedChar(data) # <<>>
                        THEN <<toLowerChar(parsedChar(data)[1])>> ELSE <<>>
           rawChar == IF IsRawPrintable(data) THEN <<toLowerChar(data.ch)>> ELSE <<>>
           pressedKey == IF keyChar # <<>> THEN keyChar ELSE rawChar
           match == IF pressedKey = <<>> THEN <<>>
                    ELSE findFavourite(st.favourites, pressedKey[1])
       IN IF match # <<>> THEN quickPickDone(st, ValueOutcome(match[1])) ELSE st

\* handleInput of the favourites picker
quickPickHandleInput(st, data) ==
  IF matchesKey(data, "escape") \/ matchesKey(data, "ctrl-c")
    THEN quickPickDone(st, NullOutcome)
  ELSE IF matchesKey(data, "backspace")
    THEN quickPickDone(st, NullOutcome)
  ELSE IF matchesKey(data, "up") \/ matchesKey(data, "ctrl-p")
    THEN [st EXCEPT !.highlightedIndex = Max(0, st.highlightedIndex - 1)]
  ELSE IF matchesKey(data, "down") \/ matchesKey(data, "ctrl-n")
    THEN [st EXCEPT !.highlightedIndex =
            Min(Len(st.favourites) - 1, st.highlightedIndex + 1)]
  ELSE IF matchesKey(data, "enter")
    THEN IF st.highlightedIndex >= 0 /\ st.highlightedIndex < Len(st.favourites)
           THEN quickPickDone(st, ValueOutcome(st.favourites[st.highlightedIndex + 1]))
           ELSE st
  ELSE LET keyChar == IF parsedChar(data) # <<>>
                        THEN <<toLowerChar(parsedChar(data)[1])>> ELSE <<>>
           rawChar == IF IsRawPrintable(data) THEN <<toLowerChar(data.ch)>> ELSE <<>>
           pressedKey == IF keyChar # <<>> THEN keyChar ELSE rawChar
           match == IF pressedKey = <<>> THEN <<>>
                    ELSE findFavourite(st.favourites, pressedKey[1])
       IN IF match # <<>> THEN quickPickDone(st, ValueOutcome(match[1])) ELSE st

QuickPickChars == {"g", "G", "2", "9", "q", "n"}

QuickPickInputs ==
  {KeyEvent(k) : k \in ControlKeys} \cup {CharEvent(c) : c \in QuickPickChars}
    \cup {KittyEvent("g"), KeyEvent("other")}

\* one input event is delivered to the live picker
QuickPickKey ==
  \E data \in QuickPickInputs :
    /\ comp = "quickpick"
    /\ \E r \in {quickPickHandleInput(QuickPickState, data)} :
          /\ comp' = r.comp
          /\ outcome' = r.outcome
          /\ cancelledAt' = IF r.outcome.null THEN pc ELSE cancelledAt
          /\ favourites' = r.favourites
          /\ favHighlightedIndex' = r.highlightedIndex
    /\ UNCHANGED <<envVars, lk, pc, locals, calls, pendingEnter, chosen, selectVars,
                   overlayVars>>

\* runFavouriteModels up to its await
runFavouriteModelsStart ==
  /\ pc = "fav:entry"
  /\ IF ~hasUI
       THEN Finish(<<>>) /\ UNCHANGED favVars
     ELSE LET favs == loadFavourites(favouritesFile)
          IN IF Len(favs) = 0
               THEN /\ Finish(<<Notify("No favourite models configured", "warning",
                                       <<>>, <<>>)>>)
                    /\ UNCHANGED favVars
               ELSE /\ pc' = "fav:pick"
                    /\ locals' = NoLocals
                    /\ OpenQuickPick(favs)
                    /\ UNCHANGED <<calls, selectVars>>
  /\ UNCHANGED <<envVars, lk, cancelledAt, chosen, pendingEnter, overlayVars>>

\* the picker resolved: apply the favourite
runFavouriteModelsChosen ==
  /\ pc = "fav:pick"
  /\ outcome.set
  /\ IF outcome.null
       THEN Finish(<<>>) /\ UNCHANGED <<ctxModel, thinkingLevel>>
     ELSE LET selected == outcome.val
              modelInfo == registryFind(registry, selected.provider.s, selected.model.s)
          IN IF modelInfo = <<>>
               THEN /\ Finish(<<Notify("Model not found in registry", "error",
                                       selected.provider.s, selected.model.s)>>)
                    /\ UNCHANGED <<ctxModel, thinkingLevel>>
             ELSE \E ok \in BOOLEAN :
               IF ~ok
                 THEN /\ Finish(<<SetModelCall(modelInfo[1], FALSE),
                                  Notify("No API key available", "warning",
                                         selected.provider.s, selected.model.s)>>)
                      /\ UNCHANGED <<ctxModel, thinkingLevel>>
                 ELSE LET applies == Truthy(selected.thinking)
                                       /\ IsThinkingLevel(selected.thinking)
                      IN /\ Finish(<<SetModelCall(modelInfo[1], TRUE)>>
                                   \o (IF applies
                                         THEN <<Call("setThinkingLevel", "", "",
                                                     selected.thinking.s, <<>>)>>
                                         ELSE <<>>)
                                   \o <<Notify(IF Truthy(selected.thinking)
                                                 THEN "Switched to (thinking)"
                                                 ELSE "Switched to",
                                               "info", selected.label.s,
                                               selected.thinking.s)>>)
                         /\ ctxModel' = <<modelInfo[1]>>
                         /\ thinkingLevel' = IF applies THEN selected.thinking.s
                                             ELSE thinkingLevel
  /\ UNCHANGED <<hasUI, registry, enabledModels, commands, favouritesFile,
                 lk, cancelledAt, chosen, pendingEnter, overlayVars, favVars>>

(***************************************************************************)
(* buildEntries and LeaderKeyOverlay.                                      *)
(***************************************************************************)
ActionItem(key, label, action) == [key |-> key, label |-> label, action |-> action]

ActionGroup(key, label, groupItems) == [key |-> key, label |-> label, items |-> groupItems]

NoGroup == ActionGroup("", "", <<>>)

GroupEntry(g) == [type |-> "group", group |-> g, key |-> "", label |-> "", action |-> ""]

ActionEntry(key, label, action) ==
  [type |-> "action", group |-> NoGroup, key |-> key, label |-> label, action |-> action]

builtinCommandNames ==
  { <<"n","e","w">>, <<"r","e","s","u","m","e">>, <<"t","r","e","e">>, <<"f","o","r","k">>,
    <<"c","o","m","p","a","c","t">>, <<"m","o","d","e","l">>,
    <<"t","h","i","n","k","i","n","g">>, <<"t","o","o","l","s">>,
    <<"r","e","l","o","a","d">>, <<"s","w","i","t","c","h">>, <<"l","k">>,
    <<"l","e","a","d","e","r","-","k","e","y">> }

customCommands(cmds) ==
  SelectSeq(cmds, LAMBDA c : c.source = "extension" /\ c.name \notin builtinCommandNames)

skillCommands(cmds) == SelectSeq(cmds, LAMBDA c : c.source = "skill")

buildEntries(cmds) ==
  << GroupEntry(ActionGroup("s", "Session",
       << ActionItem("n", "New session", "new"),
          ActionItem("r", "Resume session", "resume"),
          ActionItem("s", "Switch session", "runSessionSwitch"),
          ActionItem("t", "Session tree", "tree"),
          ActionItem("f", "Fork session", "fork"),
          ActionItem("c", "Compact context", "compact") >>)),
     ActionEntry("m", "Model", "runModelSwitcher"),
     ActionEntry("f", "Favourites", "runFavouriteModels"),
     ActionEntry("t", "Thinking", "runThinkingPicker"),
     ActionEntry("g", "Lazygit", "runLazygit"),
     GroupEntry(ActionGroup("o", "Open",
       << ActionItem("v", "LazyVim", "runLazyvim"),
          ActionItem("c", "VS Code", "runVscode") >>)) >>
  \o (IF Len(customCommands(cmds)) > 0
        THEN <<ActionEntry("e", "Extensions", "extensions")>> ELSE <<>>)
  \o (IF Len(skillCommands(cmds)) > 0
        THEN <<ActionEntry("k", "Skills", "skills")>> ELSE <<>>)
  \o <<ActionEntry("x", "Exit", "quit")>>

RootView == [type |-> "root", group |-> NoGroup]

GroupView(g) == [type |-> "group", group |-> g]

\* the chord key an entry answers to
entryKey(e) == IF e.type = "group" THEN e.group.key ELSE e.key

\* get currentItems(): the rows of the current view, as key and label
currentItems(es, v) ==
  IF v.type = "root"
    THEN [i \in 1..Len(es) |->
            [key |-> entryKey(es[i]),
             label |-> IF es[i].type = "group" THEN es[i].group.label ELSE es[i].label]]
    ELSE [i \in 1..Len(v.group.items) |->
            [key |-> v.group.items[i].key, label |-> v.group.items[i].label]]

\* a search that returns the last entry answering to key
findEntry_lastWins(es, key) ==
  LET hits == SelectSeq(es, LAMBDA e : entryKey(e) = key)
  IN IF hits = <<>> THEN <<>> ELSE <<hits[Len(hits)]>>

\* Array.prototype.find: the first element answering to key, as a sequence of
\* length 0 or 1
findEntry(es, key) ==
  LET hits == SelectSeq(es, LAMBDA e : entryKey(e) = key)
  IN IF hits = <<>> THEN <<>> ELSE <<hits[1]>>

findAction(groupItems, key) ==
  LET hits == SelectSeq(groupItems, LAMBDA a : a.key = key)
  IN IF hits = <<>> THEN <<>> ELSE <<hits[1]>>

\* the overlay's fields, with what done() was called with
OverlayState ==
  [comp |-> comp, outcome |-> outcome, entries |-> entries,
   view |-> view, highlightedIndex |-> lkHighlightedIndex]

\* done(o) of the overlay
overlayDone(st, o) ==
  IF st.outcome.set
    THEN [st EXCEPT !.outcome.count = @ + 1]
    ELSE [st EXCEPT !.comp = "none", !.outcome = o, !.entries = <<>>, !.view = RootView,
                    !.highlightedIndex = 0]

\* a back step that keeps the group view's highlighted row
overlayBack_keepsHighlight(st) ==
  IF st.view.type = "group"
    THEN [st EXCEPT !.view = RootView]
    ELSE overlayDone(st, NullOutcome)

\* a back step that closes the palette from any view
overlayBack_closesGroup(st) == overlayDone(st, NullOutcome)

\* escape, ctrl-c and backspace: back to the root view, or close from it
overlayBack(st) ==
  IF st.view.type = "group"
    THEN [st EXCEPT !.view = RootView, !.highlightedIndex = 0]
    ELSE overlayDone(st, NullOutcome)

handleRootSelection(st, key) ==
  LET entry == findEntry(st.entries, key)
  IN IF entry = <<>> THEN st
     ELSE IF entry[1].type = "group"
       THEN [st EXCEPT !.view = GroupView(entry[1].group), !.highlightedIndex = 0]
     ELSE overlayDone(st, ValueOutcome(ActionItem(entry[1].key, entry[1].label,
                                                  entry[1].action)))

\* a group view that hands the keys it does not know to the root
overlaySelect_fallsBackToRoot(st, key) ==
  IF st.view.type = "root" THEN handleRootSelection(st, key)
  ELSE LET action == findAction(st.view.group.items, key)
       IN IF action # <<>> THEN overlayDone(st, ValueOutcome(action[1]))
          ELSE handleRootSelection(st, key)

\* a chord key, in either view
overlaySelect(st, key) ==
  IF st.view.type = "root" THEN handleRootSelection(st, key)
  ELSE LET action == findAction(st.view.group.items, key)
       IN IF action # <<>> THEN overlayDone(st, ValueOutcome(action[1])) ELSE st

\* an overlay whose enter selects the first row
overlayHandleInput_enterFirstRow(st, data) ==
  IF matchesKey(data, "escape") \/ matchesKey(data, "ctrl-c") THEN overlayBack(st)
  ELSE IF matchesKey(data, "backspace") THEN overlayBack(st)
  ELSE IF matchesKey(data, "up")
    THEN [st EXCEPT !.highlightedIndex = Max(0, st.highlightedIndex - 1)]
  ELSE IF matchesKey(data, "down")
    THEN [st EXCEPT !.highlightedIndex =
            Min(Len(currentItems(st.entries, st.view)) - 1, st.highlightedIndex + 1)]
  ELSE IF matchesKey(data, "enter")
    THEN LET rows == currentItems(st.entries, st.view)
         IN IF st.highlightedIndex >= 0 /\ st.highlightedIndex < Len(rows)
              THEN overlaySelect(st, rows[1].key)
              ELSE st
  ELSE IF parsedChar(data) # <<>> /\ IsLowerLetter(parsedChar(data)[1])
    THEN overlaySelect(st, toLowerChar(parsedChar(data)[1]))
  ELSE IF IsRawPrintable(data)
    THEN overlaySelect(st, toLowerChar(data.ch))
  ELSE st

\* LeaderKeyOverlay.handleInput
overlayHandleInput(st, data) ==
  IF matchesKey(data, "escape") \/ matchesKey(data, "ctrl-c") THEN overlayBack(st)
  ELSE IF matchesKey(data, "backspace") THEN overlayBack(st)
  ELSE IF matchesKey(data, "up")
    THEN [st EXCEPT !.highlightedIndex = Max(0, st.highlightedIndex - 1)]
  ELSE IF matchesKey(data, "down")
    THEN [st EXCEPT !.highlightedIndex =
            Min(Len(currentItems(st.entries, st.view)) - 1, st.highlightedIndex + 1)]
  ELSE IF matchesKey(data, "enter")
    THEN LET rows == currentItems(st.entries, st.view)
         IN IF st.highlightedIndex >= 0 /\ st.highlightedIndex < Len(rows)
              THEN overlaySelect(st, rows[st.highlightedIndex + 1].key)
              ELSE st
  ELSE IF parsedChar(data) # <<>> /\ IsLowerLetter(parsedChar(data)[1])
    THEN overlaySelect(st, toLowerChar(parsedChar(data)[1]))
  ELSE IF IsRawPrintable(data)
    THEN overlaySelect(st, toLowerChar(data.ch))
  ELSE st

\* the characters pressed in the palette: every chord key of buildEntries, an
\* unbound letter, an upper-case letter and a digit
PaletteChars == {"s", "m", "f", "t", "g", "o", "e", "k", "x", "n", "r", "c", "v",
                 "q", "S", "1"}

PaletteInputs ==
  {KeyEvent(k) : k \in ControlKeys} \cup {CharEvent(c) : c \in PaletteChars}
    \cup {KittyEvent("s"), KittyEvent("c"), KeyEvent("other")}

\* one input event is delivered to the live overlay
PaletteKey ==
  \E data \in PaletteInputs :
    /\ comp = "palette"
    /\ \E r \in {overlayHandleInput(OverlayState, data)} :
          /\ comp' = r.comp
          /\ outcome' = r.outcome
          /\ cancelledAt' = IF r.outcome.null THEN "palette" ELSE cancelledAt
          /\ entries' = r.entries
          /\ view' = r.view
          /\ lkHighlightedIndex' = r.highlightedIndex
    /\ UNCHANGED <<envVars, lk, pc, locals, calls, pendingEnter, chosen, selectVars,
                   favVars>>

(***************************************************************************)
(* openLeaderKey and the effects of the palette's actions.                 *)
(***************************************************************************)
\* where the effect of a palette action starts
EntryPoint(action) ==
  CASE action = "runModelSwitcher" -> "switch:entry"
    [] action = "runFavouriteModels" -> "fav:entry"
    [] action = "runThinkingPicker" -> "thinking:entry"
    [] action = "extensions" -> "ext:entry"
    [] action = "skills" -> "skill:entry"
    [] OTHER -> "simple:entry"

\* the text the editor-driven actions put into the editor
EditorCommand(action) ==
  CASE action = "new" -> <<"/","n","e","w">>
    [] action = "resume" -> <<"/","r","e","s","u","m","e">>
    [] action = "tree" -> <<"/","t","r","e","e">>
    [] action = "fork" -> <<"/","f","o","r","k">>
    [] action = "quit" -> <<"/","q","u","i","t">>
    [] action = "runSessionSwitch" ->
         <<"/","s","w","i","t","c","h","-","s","e","s","s","i","o","n">>

\* the "lk" command or Ctrl+Space
HostLeaderKey ==
  /\ HostIdle
  /\ hasUI' \in BOOLEAN
  /\ commands' \in CommandSets
  /\ registry' = <<>>
  /\ enabledModels' = {}
  /\ ctxModel' = <<>>
  /\ thinkingLevel' = <<"o","f","f">>
  /\ favouritesFile' = [kind |-> "error", list |-> <<>>]
  /\ lk' = "entry"
  /\ calls' = <<>>
  /\ cancelledAt' = ""
  /\ chosen' = <<>>
  /\ UNCHANGED <<pc, locals, pendingEnter, comp, outcome, selectVars, overlayVars, favVars>>

\* openLeaderKey up to its await: the palette opens
openLeaderKeyStart ==
  /\ lk = "entry"
  /\ IF ~hasUI
       THEN lk' = "none" /\ UNCHANGED <<comp, outcome, overlayVars>>
       ELSE /\ lk' = "palette"
            /\ comp' = "palette"
            /\ outcome' = NoOutcome
            /\ entries' = buildEntries(commands)
            /\ view' = RootView
            /\ lkHighlightedIndex' = 0
  /\ UNCHANGED <<envVars, pc, locals, calls, cancelledAt, chosen, pendingEnter, selectVars, favVars>>

\* an openLeaderKey that runs the first action of the palette when the palette
\* was cancelled
openLeaderKeySelected_actsOnNull ==
  /\ lk = "palette"
  /\ outcome.set
  /\ outcome' = NoOutcome
  /\ IF outcome.null
       THEN /\ lk' = "action"
            /\ pc' = "simple:entry"
            /\ locals' = [NoLocals EXCEPT !.action = "new"]
            /\ UNCHANGED <<registry, enabledModels, ctxModel, thinkingLevel,
                           favouritesFile>>
       ELSE /\ lk' = "action"
            /\ pc' = EntryPoint(outcome.val.action)
            /\ locals' = [NoLocals EXCEPT !.action = outcome.val.action]
            /\ IF outcome.val.action = "runModelSwitcher"
                 THEN /\ registry' \in Catalogs
                      /\ enabledModels' \in AllowLists
                      /\ \E cur \in CurrentSettings :
                           ctxModel' = cur.model /\ thinkingLevel' = cur.thinking
                      /\ UNCHANGED favouritesFile
               ELSE IF outcome.val.action = "runFavouriteModels"
                 THEN /\ registry' \in Catalogs
                      /\ \E cur \in CurrentSettings :
                           ctxModel' = cur.model /\ thinkingLevel' = cur.thinking
                      /\ favouritesFile' \in FavouriteFiles
                      /\ UNCHANGED enabledModels
               ELSE IF outcome.val.action = "runThinkingPicker"
                 THEN /\ \E cur \in CurrentSettings : thinkingLevel' = cur.thinking
                      /\ UNCHANGED <<registry, enabledModels, ctxModel, favouritesFile>>
               ELSE UNCHANGED <<registry, enabledModels, ctxModel, thinkingLevel,
                                favouritesFile>>
  \* the command list lives on only in the closures of the two command pickers
  /\ commands' = IF ~outcome.null /\ outcome.val.action \in {"extensions", "skills"}
                   THEN commands ELSE <<>>
  /\ UNCHANGED <<hasUI, calls, cancelledAt, chosen, pendingEnter, comp,
                 selectVars, overlayVars, favVars>>

\* the palette resolved: openLeaderKey calls selected.action(ctx), which finds
\* the host state as it is by then
openLeaderKeySelected ==
  /\ lk = "palette"
  /\ outcome.set
  /\ outcome' = NoOutcome
  /\ IF outcome.null
       THEN /\ lk' = "none"
            /\ UNCHANGED <<pc, locals, registry, enabledModels, ctxModel, thinkingLevel,
                           favouritesFile>>
       ELSE /\ lk' = "action"
            /\ pc' = EntryPoint(outcome.val.action)
            /\ locals' = [NoLocals EXCEPT !.action = outcome.val.action]
            /\ IF outcome.val.action = "runModelSwitcher"
                 THEN /\ registry' \in Catalogs
                      /\ enabledModels' \in AllowLists
                      /\ \E cur \in CurrentSettings :
                           ctxModel' = cur.model /\ thinkingLevel' = cur.thinking
                      /\ UNCHANGED favouritesFile
               ELSE IF outcome.val.action = "runFavouriteModels"
                 THEN /\ registry' \in Catalogs
                      /\ \E cur \in CurrentSettings :
                           ctxModel' = cur.model /\ thinkingLevel' = cur.thinking
                      /\ favouritesFile' \in FavouriteFiles
                      /\ UNCHANGED enabledModels
               ELSE IF outcome.val.action = "runThinkingPicker"
                 THEN /\ \E cur \in CurrentSettings : thinkingLevel' = cur.thinking
                      /\ UNCHANGED <<registry, enabledModels, ctxModel, favouritesFile>>
               ELSE UNCHANGED <<registry, enabledModels, ctxModel, thinkingLevel,
                                favouritesFile>>
  \* the command list lives on only in the closures of the two command pickers
  /\ commands' = IF ~outcome.null /\ outcome.val.action \in {"extensions", "skills"}
                   THEN commands ELSE <<>>
  /\ UNCHANGED <<hasUI, calls, cancelledAt, chosen, pendingEnter, comp,
                 selectVars, overlayVars, favVars>>

\* selected.action(ctx) returned: openLeaderKey returns
openLeaderKeyReturn ==
  /\ lk = "action"
  /\ pc = "idle"
  /\ lk' = "none"
  /\ UNCHANGED <<envVars, pc, locals, calls, cancelledAt, chosen, pendingEnter, comp, outcome,
                 selectVars, overlayVars, favVars>>

\* the actions of buildEntries that open no picker
runSimpleAction ==
  /\ pc = "simple:entry"
  /\ LET action == locals.action
     IN IF action \in {"new", "resume", "tree", "fork", "quit", "runSessionSwitch"}
          THEN /\ Finish(<<Call("setEditorText", "", "", EditorCommand(action), <<>>)>>)
               /\ pendingEnter' = pendingEnter + 1
        ELSE IF action = "compact"
          THEN /\ Finish(<<Call("compact", "", "", <<>>, <<>>),
                           Notify("Compaction started", "info", <<>>, <<>>)>>)
               /\ UNCHANGED pendingEnter
        ELSE IF action = "runVscode"
          THEN /\ Finish(<<Call("spawnSync", "", "code .", <<>>, <<>>),
                           Notify("Opening VS Code", "info", <<>>, <<>>)>>)
               /\ UNCHANGED pendingEnter
        ELSE /\ action \in {"runLazygit", "runLazyvim"}
             /\ Finish(<<Call("spawnSync", "", action, <<>>, <<>>)>>)
             /\ UNCHANGED pendingEnter
  /\ UNCHANGED <<envVars, lk, cancelledAt, chosen, overlayVars, favVars>>

\* the calls an effect without a picker can have made when one of its calls
\* raises: none, or the first of two
RaisePoints(action) ==
  IF action = "compact" THEN {<<>>, <<Call("compact", "", "", <<>>, <<>>)>>}
  ELSE IF action = "runVscode" THEN {<<>>, <<Call("spawnSync", "", "code .", <<>>, <<>>)>>}
  ELSE {<<>>}

\* a catch that reports nothing
openLeaderKeyCatch_silent(err) == <<>>

\* the catch of openLeaderKey; the model writes the action's name for the text
\* of err
openLeaderKeyCatch(err) == <<Notify("Action failed", "error", err, <<>>)>>

\* a call of the effect raises, at once or (in the async effects) as the
\* rejection of its promise: the await in openLeaderKey throws into the catch.
\* The log keeps the place of the throw.
runSimpleActionRaises ==
  /\ pc = "simple:entry"
  /\ lk = "action"
  /\ \E made \in RaisePoints(locals.action) :
       Finish(made \o <<Call("throw", "", "", locals.action, <<>>)>>
                   \o openLeaderKeyCatch(locals.action))
  /\ UNCHANGED <<envVars, lk, cancelledAt, chosen, pendingEnter, overlayVars, favVars>>

\* the setTimeout callback of an editor-driven action: Enter on stdin
StdinEnter ==
  /\ pendingEnter > 0
  /\ pendingEnter' = pendingEnter - 1
  /\ calls' = Append(calls, Call("stdinEnter", "", "", <<>>, <<>>))
  /\ UNCHANGED <<envVars, lk, pc, locals, cancelledAt, chosen, comp, outcome,
                 selectVars, overlayVars, favVars>>

commandItems(cmds) == [i \in 1..Len(cmds) |-> Item(cmds[i].name, cmds[i].name)]

\* the Extensions action up to its await
runExtensionsStart ==
  /\ pc = "ext:entry"
  /\ Prompt("ext:pick", locals, <<>>, "Select Extension Command",
            commandItems(customCommands(commands)))
  /\ UNCHANGED <<envVars, lk, cancelledAt, chosen, pendingEnter, overlayVars, favVars>>

runExtensionsChosen ==
  /\ pc = "ext:pick"
  /\ outcome.set
  /\ IF Falsy(outcome) THEN Finish(<<>>)
     ELSE Finish(<<Call("sendUserMessage", "", "", <<"/">> \o outcome.val, <<>>)>>)
  /\ UNCHANGED <<envVars, lk, cancelledAt, chosen, pendingEnter, overlayVars, favVars>>

\* the Skills action up to its await
runSkillsStart ==
  /\ pc = "skill:entry"
  /\ Prompt("skill:pick", locals, <<>>, "Select Skill",
            commandItems(skillCommands(commands)))
  /\ UNCHANGED <<envVars, lk, cancelledAt, chosen, pendingEnter, overlayVars, favVars>>

runSkillsChosen ==
  /\ pc = "skill:pick"
  /\ outcome.set
  /\ IF Falsy(outcome) THEN Finish(<<>>)
     ELSE Finish(<<Call("setEditorText", "", "", <<"/">> \o outcome.val \o <<" ">>, <<>>),
                   Notify("Type your prompt after", "info", outcome.val, <<>>)>>)
  /\ UNCHANGED <<envVars, lk, cancelledAt, chosen, pendingEnter, overlayVars, favVars>>

(***************************************************************************)
(* Input events after done(): no handleInput looks whether its done() has  *)
(* been called.                                                            *)
(***************************************************************************)
\* where a flow awaits a searchable list
SelectSteps ==
  {"switch:provider", "switch:model", "switch:thinking", "thinking:pick", "ext:pick",
   "skill:pick"}

\* a cancel key is delivered to the handleInput of a component whose done()
\* has been called and whose caller has not resumed yet. The branches of the
\* cancel keys read no field of the list or of the quick-pick; the overlay's
\* reads its view, which is the root after a cancellation.
LateKey ==
  /\ comp = "none"
  /\ outcome.set
  /\ outcome.count < MaxDoneCalls
  /\ \E data \in {KeyEvent("escape"), KeyEvent("ctrl-c")} :
       \/ /\ pc \in SelectSteps
          /\ outcome' = searchableSelectHandleInput(SelectState, data).outcome
       \/ /\ pc = "fav:pick"
          /\ outcome' = quickPickHandleInput(QuickPickState, data).outcome
       \/ /\ lk = "palette"
          /\ outcome.null
          /\ outcome' = overlayHandleInput(OverlayState, data).outcome
  /\ UNCHANGED <<envVars, lk, pc, locals, calls, pendingEnter, cancelledAt, chosen, comp,
                 selectVars, overlayVars, favVars>>

(***************************************************************************)
(* The specification.                                                      *)
(***************************************************************************)
Init ==
  /\ hasUI = TRUE
  /\ registry = <<>>
  /\ enabledModels = {}
  /\ ctxModel = <<>>
  /\ thinkingLevel = <<"o","f","f">>
  /\ commands = <<>>
  /\ favouritesFile = [kind |-> "error", list |-> <<>>]
  /\ lk = "none"
  /\ pc = "idle"
  /\ locals = NoLocals
  /\ calls = <<>>
  /\ cancelledAt = ""
  /\ chosen = <<>>
  /\ pendingEnter = 0
  /\ comp = "none"
  /\ outcome = NoOutcome
  /\ items = <<>>
  /\ searchText = <<>>
  /\ filteredItems = <<>>
  /\ highlightedIndex = 0
  /\ scrollOffset = 0
  /\ fuzzyCalled = FALSE
  /\ entries = <<>>
  /\ view = RootView
  /\ lkHighlightedIndex = 0
  /\ favourites = <<>>
  /\ favHighlightedIndex = 0

Next ==
  \/ HostSwitch
  \/ HostLeaderKey
  \/ openLeaderKeyStart
  \/ PaletteKey
  \/ openLeaderKeySelected
  \/ openLeaderKeyReturn
  \/ runSimpleAction
  \/ runSimpleActionRaises
  \/ StdinEnter
  \/ runExtensionsStart
  \/ runExtensionsChosen
  \/ runSkillsStart
  \/ runSkillsChosen
  \/ SelectKey
  \/ runModelSwitcherStart
  \/ runModelSwitcherProviderChosen
  \/ runModelSwitcherModelChosen
  \/ runModelSwitcherThinkingChosen
  \/ runThinkingPickerStart
  \/ runThinkingPickerChosen
  \/ QuickPickKey
  \/ runFavouriteModelsStart
  \/ runFavouriteModelsChosen
  \/ RegistryChange
  \/ LateKey

Spec == Init /\ [][Next]_vars

(***************************************************************************)
(* The overlay as a component: its constructor takes the entries from its  *)
(* caller, which may hand it entries that share a chord key.               *)
(***************************************************************************)
\* root entries where a later action, a later group and a later action answer
\* to the keys of the first action and of the first group
ShadowedRoot ==
  << ActionEntry("m", "First", "first"),
     GroupEntry(ActionGroup("s", "Group",
                  << ActionItem("n", "New", "new"), ActionItem("r", "Resume", "resume") >>)),
     ActionEntry("m", "Second", "second"),
     GroupEntry(ActionGroup("s", "Shadowed group",
                  << ActionItem("t", "Tree", "tree") >>)),
     ActionEntry("s", "Shadowed action", "third"),
     ActionEntry("x", "Last", "last") >>

\* a group whose items share keys, after an action that takes the key of a
\* later group
ShadowedGroup ==
  << ActionEntry("o", "Open", "open"),
     GroupEntry(ActionGroup("g", "Git",
                  << ActionItem("c", "Commit", "commit"), ActionItem("v", "View", "view"),
                     ActionItem("c", "Checkout", "checkout"),
                     ActionItem("c", "Clean", "clean"), ActionItem("v", "Verify", "verify") >>)),
     GroupEntry(ActionGroup("o", "Options",
                  << ActionItem("e", "Edit", "edit") >>)),
     ActionEntry("k", "Keys", "keys"),
     ActionEntry("k", "Kill", "kill") >>

\* a group without actions beside an action
EmptyGroupRoot ==
  << GroupEntry(ActionGroup("e", "Empty", <<>>)),
     ActionEntry("x", "Exit", "quit") >>

\* what a caller hands to the constructor: the entries of openLeaderKey,
\* entries with shared chord keys, and entries with a group of no actions
PaletteEntrySets ==
  {buildEntries(cmds) : cmds \in CommandSets}
    \cup {ShadowedRoot, ShadowedGroup, EmptyGroupRoot}

\* new LeaderKeyOverlay(entries, theme, done)
LeaderKeyOverlay ==
  /\ comp = "none"
  /\ \E es \in PaletteEntrySets :
       /\ comp' = "palette"
       /\ outcome' = NoOutcome
       /\ entries' = es
       /\ view' = RootView
       /\ lkHighlightedIndex' = 0
  /\ UNCHANGED <<envVars, lk, pc, locals, calls, cancelledAt, pendingEnter, chosen,
                 selectVars, favVars>>

NextPalette ==
  \/ LeaderKeyOverlay
  \/ PaletteKey

SpecPalette == Init /\ [][NextPalette]_vars


(***************************************************************************)
(* Properties of the searchable list.                                      *)
(***************************************************************************)

\* C1: while a searchable list is live, the highlighted index addresses a
\* row of the filtered list (0 <= highlightedIndex < filteredItems.length)
\* when the filtered list is not empty, and is 0 when it is empty, also
\* after a down key on a list that matches nothing.
C1_HighlightedIndexInRange ==
  comp = "select" =>
    IF Len(filteredItems) > 0
      THEN 0 <= highlightedIndex /\ highlightedIndex < Len(filteredItems)
      ELSE highlightedIndex = 0

\* C2: while a searchable list is live, scrollOffset >= 0 and the highlighted
\* row lies in the window of MAX_VISIBLE rows that starts at scrollOffset.
C2_HighlightedRowVisible ==
  comp = "select" =>
    /\ scrollOffset >= 0
    /\ scrollOffset <= highlightedIndex
    /\ highlightedIndex < scrollOffset + MAX_VISIBLE

(***************************************************************************)
(* Properties of cancellation and of the palette's views.                  *)
(***************************************************************************)
CancelKeys == {"escape", "ctrl-c"}

\* C3: a cancel key (escape or ctrl-c) delivered to any live component, a
\* searchable step, the quick-pick, or the palette in its root view or in a
\* group view, makes the component call done(null) within that same event.
C3_CancelCallsDoneNull ==
  \A k \in CancelKeys :
    /\ comp = "select" =>
         LET r == searchableSelectHandleInput(SelectState, KeyEvent(k))
         IN  r.outcome.set /\ r.outcome.null
    /\ comp = "quickpick" =>
         LET r == quickPickHandleInput(QuickPickState, KeyEvent(k))
         IN  r.outcome.set /\ r.outcome.null
    /\ comp = "palette" =>
         LET r == overlayHandleInput(OverlayState, KeyEvent(k))
         IN  r.outcome.set /\ r.outcome.null

\* C4: in the palette's root view the chord of a group opens that group's view
\* and produces no outcome; backspace in a group view returns to the root view
\* with highlightedIndex 0 and produces no outcome; escape in the root view
\* closes the palette with the outcome null.
C4_PaletteViewChanges ==
  comp = "palette" =>
    /\ view.type = "root" =>
         \A i \in 1..Len(entries) :
           entries[i].type = "group" =>
             LET r == overlayHandleInput(OverlayState, CharEvent(entries[i].group.key))
             IN  /\ r.comp = "palette"
                 /\ ~r.outcome.set
                 /\ r.view = GroupView(entries[i].group)
    /\ view.type = "group" =>
         LET r == overlayHandleInput(OverlayState, KeyEvent("backspace"))
         IN  /\ r.comp = "palette"
             /\ ~r.outcome.set
             /\ r.view = RootView
             /\ r.highlightedIndex = 0
    /\ view.type = "root" =>
         LET r == overlayHandleInput(OverlayState, KeyEvent("escape"))
         IN  r.comp = "none" /\ r.outcome.set /\ r.outcome.null

\* a group view left by backspace with a row other than the first highlighted
C4_Witness ==
  /\ comp = "palette"
  /\ view.type = "group"
  /\ lkHighlightedIndex > 0

IsBackKey(data) == data.kind \in {"escape", "ctrl-c", "backspace"}

\* the actions listed at the palette's top level, and in a group
RootActions ==
  {ActionItem(entries[i].key, entries[i].label, entries[i].action) :
     i \in {j \in 1..Len(entries) : entries[j].type = "action"}}

GroupActions(g) == {g.items[i] : i \in 1..Len(g.items)}

RootGroups ==
  {entries[i].group : i \in {j \in 1..Len(entries) : entries[j].type = "group"}}

CallsOf(op) == {i \in 1..Len(calls) : calls[i].op = op}

WizardSteps == <<"switch:provider", "switch:model", "switch:thinking">>

\* C6: when the provider step of runModelSwitcher ends in a cancellation,
\* getModelsForProvider is never called and no second searchableSelect is
\* opened in that invocation.
C6_ProviderCancelStopsFlow ==
  cancelledAt = "switch:provider" =>
    /\ CallsOf("getModelsForProvider") = {}
    /\ Cardinality(CallsOf("searchableSelect")) = 1
    /\ comp = "none"
    /\ pc \in {"switch:provider", "idle"}

\* the flow has returned after its provider step was cancelled
C6_Witness ==
  /\ cancelledAt = "switch:provider"
  /\ pc = "idle"

\* C7: when any of the three steps of runModelSwitcher ends in a cancellation,
\* setModel and setThinkingLevel are never called in that invocation and no
\* later step is opened.
C7_CancelAppliesNothing ==
  \A n \in 1..Len(WizardSteps) :
    cancelledAt = WizardSteps[n] =>
      /\ CallsOf("setModel") = {}
      /\ CallsOf("setThinkingLevel") = {}
      /\ Cardinality(CallsOf("searchableSelect")) = n
      /\ comp = "none"
      /\ pc \in {WizardSteps[n], "idle"}

\* the flow has returned after two confirmed steps and a cancelled third
C7_Witness ==
  /\ cancelledAt = "switch:thinking"
  /\ Len(chosen) = 2
  /\ pc = "idle"

\* C8: a cancellation by the user, of a wizard step, of the thinking picker, of
\* the favourites quick-pick or of the palette, is never followed or preceded
\* by a ctx.ui.notify call in that invocation.
C8_CancelNeverNotifies ==
  cancelledAt # "" => CallsOf("notify") = {}

\* the favourites flow has returned after its quick-pick was cancelled
C8_Witness ==
  /\ cancelledAt = "fav:pick"
  /\ pc = "idle"
  /\ lk = "none"

\* C9: when the user has confirmed provider P, model M with reasoning = true
\* and level L, runModelSwitcher calls setModel once, with the model (P, M),
\* and when setModel succeeds calls setThinkingLevel(L) right after it and
\* once; the session then runs (P, M) at level L.
C9_ConfirmedChoiceApplied ==
  (pc = "idle" /\ Len(chosen) = 3) =>
    \E i \in CallsOf("setModel") :
      /\ CallsOf("setModel") = {i}
      /\ calls[i].a = chosen[1]
      /\ calls[i].b = chosen[2]
      /\ calls[i].msg = "true" =>
           /\ CallsOf("setThinkingLevel") = {i + 1}
           /\ calls[i + 1].a = chosen[3]
           /\ ctxModel # <<>>
           /\ ctxModel[1].provider = chosen[1]
           /\ ctxModel[1].id = chosen[2]
           /\ ctxModel[1].reasoning
           /\ thinkingLevel = chosen[3]

\* anthropic, claude-x and high were confirmed and applied
C9_Witness ==
  /\ pc = "idle"
  /\ chosen = <<anthropic, ClaudeX.id, <<"h","i","g","h">> >>
  /\ ctxModel = <<ClaudeX>>
  /\ thinkingLevel = <<"h","i","g","h">>
  /\ calls[Len(calls)].op = "notify"
  /\ calls[Len(calls)].sev = "info"

\* C10: when the model confirmed in the model step has reasoning = false, the
\* flow opens no thinking-level step (it has opened exactly two searchable
\* steps), leaves the thinking level as it is, and goes on to call setModel
\* with that model.
C10_NoReasoningSkipsThinkingStep ==
  [][ ( /\ pc = "switch:model"
        /\ pc' # pc
        /\ outcome.set
        /\ ~Falsy(outcome)
        /\ registryFind(registry, locals.selectedProvider, outcome.val) # <<>>
        /\ ~registryFind(registry, locals.selectedProvider, outcome.val)[1].reasoning )
      => /\ pc' = "idle"
         /\ comp' = "none"
         /\ Cardinality({i \in 1..Len(calls') : calls'[i].op = "searchableSelect"}) = 2
         /\ thinkingLevel' = thinkingLevel
         /\ Len(calls') > Len(calls)
         /\ calls'[Len(calls) + 1].op = "setModel"
         /\ calls'[Len(calls) + 1].a = locals.selectedProvider
         /\ calls'[Len(calls) + 1].b = outcome.val
         /\ calls'[Len(calls) + 1].msg = "true" =>
              ctxModel' = registryFind(registry, locals.selectedProvider, outcome.val)
    ]_vars

\* claude-y, which does not reason, was confirmed and applied
C10_Witness ==
  /\ pc = "idle"
  /\ chosen = <<anthropic, ClaudeY.id>>
  /\ ctxModel = <<ClaudeY>>
  /\ calls[Len(calls)].op = "notify"
  /\ calls[Len(calls)].sev = "info"


(***************************************************************************)
(* Properties of the flows' failures.                                      *)
(***************************************************************************)
\* the positions of the calls of op in the log after the step
CallsOfNext(op) == {i \in 1..Len(calls') : calls'[i].op = op}

\* the step is the return of a flow that made its calls and opened nothing
ReturnsQuietly ==
  /\ pc' = "idle"
  /\ comp' = "none"
  /\ Len(calls') >= Len(calls)
  /\ SubSeq(calls', 1, Len(calls)) = calls
  /\ CallsOfNext("searchableSelect") = CallsOf("searchableSelect")

\* C11: when pi.setModel reports failure in runModelSwitcher or in
\* runFavouriteModels, the flow makes one notification, a warning, and no
\* success notification, does not call setThinkingLevel, and returns; the
\* thinking level and the current model are what they were.
C11_ApplyFailureWarnsOnly ==
  [][ ( /\ Len(calls') > Len(calls)
        /\ calls'[Len(calls) + 1].op = "setModel"
        /\ calls'[Len(calls) + 1].msg = "false" )
      => /\ ReturnsQuietly
         /\ Len(calls') = Len(calls) + 2
         /\ CallsOfNext("notify") = {Len(calls) + 2}
         /\ calls'[Len(calls) + 2].sev = "warning"
         /\ CallsOfNext("setThinkingLevel") = {}
         /\ thinkingLevel' = thinkingLevel
         /\ ctxModel' = ctxModel
    ]_vars

\* the wizard has returned after three confirmed steps and a failed setModel
C11_Witness ==
  /\ pc = "idle"
  /\ Len(chosen) = 3
  /\ \E i \in CallsOf("setModel") : calls[i].msg = "false"
  /\ calls[Len(calls)].sev = "warning"

\* the model the wizard's model step, or the favourites quick-pick, resolved
\* with is not in the registry
LookupFails ==
  \/ /\ pc = "switch:model"
     /\ outcome.set
     /\ ~Falsy(outcome)
     /\ registryFind(registry, locals.selectedProvider, outcome.val) = <<>>
  \/ /\ pc = "fav:pick"
     /\ outcome.set
     /\ ~outcome.null
     /\ registryFind(registry, outcome.val.provider.s, outcome.val.model.s) = <<>>

\* C12: when the chosen provider and model (wizard) or the chosen favourite's
\* provider and model are not found by modelRegistry.find, the flow makes one
\* notification, an error, and returns: setModel and setThinkingLevel are not
\* called and the wizard opens no thinking-level step.
C12_LookupFailureReportsError ==
  [][ (LookupFails /\ pc' # pc)
      => /\ ReturnsQuietly
         /\ Len(calls') = Len(calls) + 1
         /\ CallsOfNext("notify") = {Len(calls) + 1}
         /\ calls'[Len(calls) + 1].sev = "error"
         /\ CallsOfNext("setModel") = {}
         /\ CallsOfNext("setThinkingLevel") = {}
         /\ thinkingLevel' = thinkingLevel
         /\ ctxModel' = ctxModel
    ]_vars

\* the wizard has returned with an error after its model step was confirmed
C12_Witness ==
  /\ pc = "idle"
  /\ Len(chosen) = 2
  /\ Len(calls) > 0
  /\ calls[Len(calls)].op = "notify"
  /\ calls[Len(calls)].sev = "error"

\* a flow that runs with a UI finds no providers, no models for the provider
\* its first step resolved with, or no favourites
EmptyResultSet ==
  \/ /\ pc = "switch:entry"
     /\ hasUI
     /\ getProviders(registry, enabledModels) = <<>>
  \/ /\ pc = "switch:provider"
     /\ outcome.set
     /\ ~Falsy(outcome)
     /\ getModelsForProvider(registry, enabledModels, outcome.val) = <<>>
  \/ /\ pc = "fav:entry"
     /\ hasUI
     /\ loadFavourites(favouritesFile) = <<>>

\* C13: when runModelSwitcher finds no providers, or no models for the chosen
\* provider, or runFavouriteModels finds no favourites, the flow makes exactly
\* one notification, a warning, and returns: it opens no selection UI and
\* calls neither setModel nor setThinkingLevel.
C13_EmptyResultSetWarnsOnce ==
  [][ (EmptyResultSet /\ pc' # pc)
      => /\ ReturnsQuietly
         /\ Cardinality(CallsOfNext("notify")) = 1
         /\ calls'[Len(calls')].op = "notify"
         /\ calls'[Len(calls')].sev = "warning"
         /\ CallsOfNext("setModel") = {}
         /\ CallsOfNext("setThinkingLevel") = {}
         /\ thinkingLevel' = thinkingLevel
         /\ ctxModel' = ctxModel
    ]_vars

\* the wizard has returned with a warning after its provider step was confirmed
C13_Witness ==
  /\ pc = "idle"
  /\ Len(chosen) = 1
  /\ CallsOf("getModelsForProvider") # {}
  /\ calls[Len(calls)].op = "notify"
  /\ calls[Len(calls)].sev = "warning"


(***************************************************************************)
(* Properties of one input event to the searchable list.                   *)
(***************************************************************************)
\* the elements of a sequence
Range(seq) == {seq[i] : i \in 1..Len(seq)}

\* C14: a single printable character appends itself to the query, replaces
\* filteredItems with the fuzzy match of all the candidates against the new
\* query, and sets highlightedIndex and scrollOffset to 0, whatever they were.
C14_PrintableAppendsAndResets ==
  comp = "select" =>
    \A c \in TypedChars :
      LET r == searchableSelectHandleInput(SelectState, CharEvent(c))
      IN  /\ r.comp = "select"
          /\ ~r.outcome.set
          /\ r.items = items
          /\ r.searchText = Append(searchText, c)
          /\ r.filteredItems = fuzzyFilter(items, Append(searchText, c))
          /\ Range(r.filteredItems) \subseteq Range(items)
          /\ r.highlightedIndex = 0
          /\ r.scrollOffset = 0

\* a list that is scrolled, with room left in the query
C14_Witness ==
  /\ comp = "select"
  /\ Len(searchText) < MaxQuery
  /\ scrollOffset > 0
  /\ highlightedIndex > scrollOffset

C16_AppendThenBackspaceRestores ==
  comp = "select" =>
    \A c \in TypedChars :
      LET r == searchableSelectHandleInput(
                 searchableSelectHandleInput(SelectState, CharEvent(c)),
                 KeyEvent("backspace"))
      IN  /\ r.comp = "select"
          /\ ~r.outcome.set
          /\ r.searchText = searchText
          /\ r.filteredItems = filteredItems
          /\ r.highlightedIndex = 0

\* a query that has narrowed the list to some of its rows
C16_Witness ==
  /\ comp = "select"
  /\ searchText = <<"a">>
  /\ Len(filteredItems) > 1
  /\ Len(filteredItems) < Len(items)

\* C17: with a filtered list of n > 0 rows, highlightedIndex stays within
\* 0 .. n - 1 however often down or up (or ctrl-n, ctrl-p) is pressed.
C17_NavigationStaysInList ==
  (comp = "select" /\ Len(filteredItems) > 0) =>
    /\ 0 <= highlightedIndex
    /\ highlightedIndex <= Len(filteredItems) - 1
    /\ \A k \in {"down", "ctrl-n"} :
         LET r == searchableSelectHandleInput(SelectState, KeyEvent(k))
         IN  /\ r.highlightedIndex <= Len(filteredItems) - 1
             /\ r.highlightedIndex >= highlightedIndex
    /\ \A k \in {"up", "ctrl-p"} :
         LET r == searchableSelectHandleInput(SelectState, KeyEvent(k))
         IN  /\ r.highlightedIndex >= 0
             /\ r.highlightedIndex <= highlightedIndex

\* the last of several rows is highlighted
C17_Witness ==
  /\ comp = "select"
  /\ Len(filteredItems) > 1
  /\ highlightedIndex = Len(filteredItems) - 1

NavigationKeys == {"up", "down", "ctrl-p", "ctrl-n"}

\* C18: an up or down step changes scrollOffset only when the new
\* highlightedIndex is outside the window [scrollOffset, scrollOffset + 15):
\* to highlightedIndex when it is above, to highlightedIndex - 14 when it is
\* below.  It never changes the query or filteredItems.
C18_MinimalScroll ==
  comp = "select" =>
    \A k \in NavigationKeys :
      LET r == searchableSelectHandleInput(SelectState, KeyEvent(k))
      IN  /\ r.comp = "select"
          /\ ~r.outcome.set
          /\ r.searchText = searchText
          /\ r.filteredItems = filteredItems
          /\ r.items = items
          /\ r.scrollOffset =
               IF r.highlightedIndex < scrollOffset THEN r.highlightedIndex
               ELSE IF r.highlightedIndex >= scrollOffset + 15
                 THEN r.highlightedIndex - 14
               ELSE scrollOffset

\* the window has followed the highlight two rows down, and no further
C18_Witness ==
  /\ comp = "select"
  /\ highlightedIndex = 16
  /\ scrollOffset = 2

\* C19: enter on a filtered list that is not empty ends the list with the
\* value of filteredItems[highlightedIndex]; enter on an empty filtered list
\* produces no outcome and changes nothing.
C19_EnterConfirmsHighlightedRow ==
  comp = "select" =>
    LET r == searchableSelectHandleInput(SelectState, KeyEvent("enter"))
    IN  IF Len(filteredItems) > 0
          THEN /\ r.comp = "none"
               /\ r.outcome = ValueOutcome(filteredItems[highlightedIndex + 1].value)
          ELSE r = SelectState

\* the provider step has ended with the value of its second row
C19_Witness ==
  /\ pc = "switch:provider"
  /\ comp = "none"
  /\ outcome.set
  /\ ~outcome.null
  /\ outcome.val = openai

\* every kind of input event, among them sequences that are no single character
AllSelectInputs ==
  SelectInputs \cup {KittyEvent(c) : c \in {"a", "z"}}

\* C20: each input event is handled by exactly one class, tried in the order
\* cancel keys, backspace, navigation, enter, single printable character;
\* an event of no class (a sequence of several characters) leaves query,
\* filteredItems, highlightedIndex and scrollOffset as they are and produces
\* no outcome.
C20_OneClassPerEvent ==
  comp = "select" =>
    \A data \in AllSelectInputs :
      LET r == searchableSelectHandleInput(SelectState, data)
      IN  IF data.kind \in CancelKeys
            THEN r.outcome.set /\ r.outcome.null
          ELSE IF data.kind = "backspace"
            THEN /\ ~r.outcome.set
                 /\ r.searchText = SubSeq(searchText, 1, Max(0, Len(searchText) - 1))
          ELSE IF data.kind \in NavigationKeys
            THEN /\ ~r.outcome.set
                 /\ r.searchText = searchText
                 /\ r.filteredItems = filteredItems
          ELSE IF data.kind = "enter"
            THEN /\ ~r.outcome.null
                 /\ r.outcome.set \/ r = SelectState
          ELSE IF data.kind = "char"
            THEN /\ ~r.outcome.set
                 /\ r.searchText = Append(searchText, data.ch)
          ELSE r = SelectState

\* a list whose query is not empty and whose highlight has moved
C20_Witness ==
  /\ comp = "select"
  /\ searchText # <<>>
  /\ highlightedIndex > 0


(***************************************************************************)
(* Properties of the favourites quick-pick and of the preset file.         *)
(***************************************************************************)
\* the rows of the quick-pick whose key is the character c, whatever its case
RowsWithKey(c) ==
  {i \in 1..Len(favourites) : toLowerCase(favourites[i].key.s) = <<toLowerChar(c)>>}

\* the events of the quick-pick that carry a character
QuickPickCharEvents ==
  {CharEvent(c) : c \in QuickPickChars} \cup {KittyEvent("g")}

\* C21: in the quick-pick a character that is the key of no favourite, in
\* either case, changes nothing and produces no outcome; a character that is
\* the key of a favourite ends the picker at once with that favourite (the
\* first one with the key), whatever row is highlighted and without enter.
C21_DirectKeyPicksFavourite ==
  comp = "quickpick" =>
    \A data \in QuickPickCharEvents :
      LET r == quickPickHandleInput(QuickPickState, data)
          rows == RowsWithKey(data.ch)
      IN  IF rows = {}
            THEN r = QuickPickState
            ELSE /\ r.comp = "none"
                 /\ r.outcome =
                      ValueOutcome(favourites[CHOOSE i \in rows : \A j \in rows : i <= j])

\* the third row is highlighted while "g" is the key of the first
C21_Witness ==
  /\ comp = "quickpick"
  /\ favHighlightedIndex = 2
  /\ favourites[1] = FavClaude
  /\ RowsWithKey("G") = {1, 3}

\* C22: backspace in the quick-pick, in any state, ends it with the outcome
\* null; after that cancellation neither a model nor a thinking level is set.
C22_BackspaceCancelsQuickPick ==
  /\ comp = "quickpick" =>
       LET r == quickPickHandleInput(QuickPickState, KeyEvent("backspace"))
       IN  r.comp = "none" /\ r.outcome.set /\ r.outcome.null
  /\ cancelledAt = "fav:pick" =>
       /\ CallsOf("setModel") = {}
       /\ CallsOf("setThinkingLevel") = {}
       /\ pc \in {"fav:pick", "idle"}

\* the favourites flow has returned from a cancelled quick-pick, having called
\* nothing
C22_Witness ==
  /\ cancelledAt = "fav:pick"
  /\ pc = "idle"
  /\ calls = <<>>
  /\ ctxModel = <<ClaudeX>>

\* an entry of the preset file is well formed
WellFormed(e) ==
  /\ e.key.t = "string"
  /\ Len(e.key.s) = 1
  /\ e.label.t = "string"
  /\ e.provider.t = "string"
  /\ e.model.t = "string"

\* the number of well-formed entries among the first j of a list
WellFormedUpTo(list, j) == Cardinality({i \in 1..j : WellFormed(list[i])})

RECURSIVE MatchedPrefixes(_, _, _)
MatchedPrefixes(pattern, key, n) ==
  IF n = 0 THEN {0}
  ELSE UNION {
         IF pattern[n] = "*"
           THEN {k \in 0..Len(key) : \E j \in prev : j <= k}
         ELSE IF pattern[n] = "?"
           THEN {j + 1 : j \in {i \in prev : i < Len(key)}}
         ELSE {j + 1 : j \in {i \in prev : i < Len(key) /\ key[i + 1] = pattern[n]}}
         : prev \in {MatchedPrefixes(pattern, key, n - 1)} }

FullyMatches(pattern, key) == Len(key) \in MatchedPrefixes(pattern, key, Len(pattern))

\* what the allow-list is specified to admit
Admits(patterns, provider, id) ==
  LET key == toLowerCase(provider \o <<"/">> \o id)
  IN  \/ patterns = {}
      \/ \E p \in patterns :
           \/ toLowerCase(p) = key
           \/ /\ \E i \in 1..Len(p) : p[i] \in {"*", "?"}
              /\ FullyMatches(toLowerCase(p), key)

\* allow-lists beside those of the settings: a "?" for one character only, a
\* literal ".", a "*" in the middle, an exact entry of another provider
GlobAllowLists ==
  AllowLists \cup
  { { <<"*","/","?">> },
    { <<"*",".","x">> },
    { <<"A","n","*","c","/","C","l","a","u","d","e","-","?">> },
    { <<"o","p","e","n","a","i","/","c","l","a","u","d","e","-","x">>,
      <<"?","?","?","-","z">> } }

\* provider and id of the models asked about: those of the catalog and one
\* that has the id of one provider under the name of the other
GlobModels ==
  {<<m.provider, m.id>> : m \in {ClaudeX, ClaudeY, GptZ, GptOld}}
    \cup {<<openai, ClaudeX.id>>}

\* isModelEnabled against Admits on every allow-list and model of the table
AllowListTable ==
  \A patterns \in GlobAllowLists : \A m \in GlobModels :
    isModelEnabled(m[1], m[2], getEnabledModelSet(patterns))
      = Admits(patterns, m[1], m[2])

\* "anthropic/*" admits "anthropic/claude-x" and not "openai/claude-x"; an
\* absent allow-list admits every model
AllowListExamples ==
  /\ isModelEnabled(anthropic, ClaudeX.id,
                    getEnabledModelSet({anthropic \o <<"/", "*">>}))
  /\ ~isModelEnabled(openai, ClaudeX.id,
                     getEnabledModelSet({anthropic \o <<"/", "*">>}))
  /\ \A m \in GlobModels : isModelEnabled(m[1], m[2], getEnabledModelSet({}))

\* C24: isModelEnabled is true for every model when the allow-list is absent
\* or empty; otherwise it is true exactly when the lower-cased "provider/id"
\* equals a lower-cased pattern or fully matches a (lower-cased) pattern that
\* contains "*" (any run of characters) or "?" (exactly one character);
\* "anthropic/*" admits "anthropic/claude-x" and not "openai/claude-x".
C24_AllowListGlob ==
  /\ \A i \in 1..Len(registry) :
       isModelEnabled(registry[i].provider, registry[i].id,
                      getEnabledModelSet(enabledModels))
         = Admits(enabledModels, registry[i].provider, registry[i].id)
  /\ AllowListTable
  /\ AllowListExamples

\* the model step lists the one model that the allow-list with the "?" glob
\* leaves of a catalog of four
C24_Witness ==
  /\ pc = "switch:model"
  /\ comp = "select"
  /\ Len(registry) = 4
  /\ Cardinality(enabledModels) = 2
  /\ Len(items) = 1


(***************************************************************************)
(* Properties of the palette's selection.                                  *)
(***************************************************************************)
\* the rows of the current scope (the root, or the open group) by chord key
ScopeKeys == currentItems(entries, view)

\* row i is the first of its scope that answers to its key
IsFirstOfKey(i) ==
  /\ i \in 1..Len(ScopeKeys)
  /\ \A j \in 1..(i - 1) : ScopeKeys[j].key # ScopeKeys[i].key

\* what selecting row i of the current scope produces: the group's view, or
\* the terminal outcome with the action
SelectionOf(i) ==
  IF view.type = "root"
    THEN IF entries[i].type = "group"
           THEN [OverlayState EXCEPT !.view = GroupView(entries[i].group),
                                     !.highlightedIndex = 0]
           ELSE [comp |-> "none",
                 outcome |-> ValueOutcome(ActionItem(entries[i].key, entries[i].label,
                                                     entries[i].action)),
                 entries |-> <<>>, view |-> RootView, highlightedIndex |-> 0]
    ELSE [comp |-> "none", outcome |-> ValueOutcome(view.group.items[i]),
          entries |-> <<>>, view |-> RootView, highlightedIndex |-> 0]

\* C25: when two entries of one scope of the palette share a chord key the
\* first-registered wins: the chord key selects the first, enter on the row of
\* the later one selects the first as well, and no input event selects the
\* later one.
C25_FirstRegisteredWins ==
  comp = "palette" =>
    /\ \A i \in 1..Len(ScopeKeys) :
         \E f \in 1..i :
           /\ IsFirstOfKey(f)
           /\ ScopeKeys[f].key = ScopeKeys[i].key
           /\ overlayHandleInput(OverlayState, CharEvent(ScopeKeys[i].key)) = SelectionOf(f)
           /\ lkHighlightedIndex = i - 1 =>
                overlayHandleInput(OverlayState, KeyEvent("enter")) = SelectionOf(f)
    /\ \A data \in PaletteInputs :
         LET r == overlayHandleInput(OverlayState, data)
         IN  (r.outcome.set /\ ~r.outcome.null) \/ (r.view # view /\ r.view.type = "group")
               => \E f \in 1..Len(ScopeKeys) : IsFirstOfKey(f) /\ r = SelectionOf(f)

\* the highlighted row is a later entry with the key of an earlier, different
\* one: at the root, and in a group
C25_Witness ==
  /\ comp = "palette"
  /\ ~IsFirstOfKey(lkHighlightedIndex + 1)
  /\ lkHighlightedIndex + 1 <= Len(ScopeKeys)
  /\ \/ view.type = "root" /\ entries = ShadowedRoot /\ lkHighlightedIndex = 4
     \/ view.type = "group" /\ entries = ShadowedGroup /\ lkHighlightedIndex = 3


\* C26: enter in the palette acts on the highlighted row: at the root it
\* opens the group, or produces the action, at highlightedIndex; in a group it
\* produces the group's action at highlightedIndex. Up and down change
\* highlightedIndex only, by one row and within the rows of the view. (The
\* entries that openLeaderKey builds have distinct keys in every scope.)
C26_EnterActsOnHighlightedRow ==
  comp = "palette" =>
    /\ lkHighlightedIndex \in 0..(Len(ScopeKeys) - 1)
    /\ overlayHandleInput(OverlayState, KeyEvent("enter")) = SelectionOf(lkHighlightedIndex + 1)
    /\ overlayHandleInput(OverlayState, KeyEvent("up")) =
         [OverlayState EXCEPT !.highlightedIndex =
            IF lkHighlightedIndex = 0 THEN 0 ELSE lkHighlightedIndex - 1]
    /\ overlayHandleInput(OverlayState, KeyEvent("down")) =
         [OverlayState EXCEPT !.highlightedIndex =
            IF lkHighlightedIndex = Len(ScopeKeys) - 1
              THEN lkHighlightedIndex ELSE lkHighlightedIndex + 1]

\* the third row of a group is highlighted in the palette of openLeaderKey
C26_Witness ==
  /\ lk = "palette"
  /\ comp = "palette"
  /\ view.type = "group"
  /\ lkHighlightedIndex = 2
  /\ Len(ScopeKeys) > 3


(***************************************************************************)
(* One terminal outcome for each component.                                *)
(***************************************************************************)
\* C27: each searchable step, palette and quick-pick produces exactly one
\* terminal outcome: done is called at most once for one component instance,
\* whatever input events are delivered, those after the first call included.
C27_DoneCalledAtMostOnce == outcome.count <= 1


(***************************************************************************)
(* The order of the steps of a flow and of the palette's effect.           *)
(***************************************************************************)
\* the number of the wizard step at which runModelSwitcher stands
StepNumber == CHOOSE n \in 1..Len(WizardSteps) : WizardSteps[n] = pc

\* the steps of this invocation that have produced their terminal outcome
StepsEnded == Len(chosen) + (IF cancelledAt = "" THEN 0 ELSE 1)

\* C28: the steps of runModelSwitcher run strictly one after the other: the
\* candidates and the prompt of step n+1 are built only after step n has
\* produced its terminal outcome (the n-th prompt is opened with n-1 values
\* confirmed, and the models of a provider are looked up only after the
\* provider step), and at most one searchableSelect prompt is live at a time.
C28_StepsRunSequentially ==
  pc \in Range(WizardSteps) =>
    LET opened == Cardinality(CallsOf("searchableSelect"))
    IN  /\ opened = StepNumber
        /\ Len(chosen) >= StepNumber - 1
        /\ opened - StepsEnded = (IF comp = "select" THEN 1 ELSE 0)
        /\ comp \in {"select", "none"}
        /\ CallsOf("getModelsForProvider") # {} => Len(chosen) >= 1
        /\ \A i \in CallsOf("getModelsForProvider") : \A j \in CallsOf("searchableSelect") :
             j < i => calls[j].msg = "Select Provider"

\* the third step is live after two confirmed steps
C28_Witness ==
  /\ pc = "switch:thinking"
  /\ comp = "select"
  /\ Len(chosen) = 2
  /\ Cardinality(CallsOf("searchableSelect")) = 3


\* C29: openLeaderKey invokes the effect of the selected action only after the
\* palette has produced its terminal outcome, at most once for one palette,
\* and never when the outcome is null; the Enter that an effect injects into
\* stdin is scheduled, and arrives, only after the palette has terminated.
C29_EffectAfterPaletteOutcome ==
  [][ /\ (lk' = "action" /\ lk # "action") =>
           /\ lk = "palette"
           /\ comp = "none" /\ comp' = "none"
           /\ outcome.set /\ ~outcome.null
           /\ pc = "idle"
           /\ pc' = EntryPoint(outcome.val.action)
      /\ (lk # "none" /\ pc = "idle" /\ pc' # "idle") => (lk = "palette" /\ lk' = "action")
      /\ lk = "action" => lk' \in {"action", "none"}
      /\ (lk = "action" /\ pc = "idle") => pc' = "idle"
      /\ (lk = "palette" /\ outcome.set /\ outcome.null) =>
           /\ pc' = "idle"
           /\ lk' \in {"palette", "none"}
           /\ calls' = calls
           /\ pendingEnter' = pendingEnter
      /\ pendingEnter' > pendingEnter => (lk = "action" /\ comp = "none")
      /\ CallsOfNext("stdinEnter") # CallsOf("stdinEnter") => (comp = "none" /\ lk # "palette")
    ]_vars

\* an effect chosen in the palette has run and its Enter is pending
C29_Witness ==
  /\ lk = "action"
  /\ pc = "idle"
  /\ pendingEnter = 1
  /\ CallsOf("setEditorText") # {}

\* the error notifications of the catch
ActionFailedCalls ==
  {i \in CallsOf("notify") : calls[i].msg = "Action failed" /\ calls[i].sev = "error"}

\* C30: when the effect of the action selected in the palette raises, at once
\* or by a rejected promise, openLeaderKey catches it, emits one error
\* notification and returns normally: nothing else follows the throw and
\* openLeaderKey is at its return.
C30_RaisedEffectIsCaught ==
  \A i \in CallsOf("throw") :
    /\ CallsOf("throw") = {i}
    /\ ActionFailedCalls = {i + 1}
    /\ Len(calls) = i + 1
    /\ pc = "idle"
    /\ comp = "none"
    /\ pendingEnter = 0
    /\ lk \in {"action", "none"}

\* the async effect that opens the editor raised after its first call, and
\* openLeaderKey has returned
C30_Witness ==
  /\ lk = "none"
  /\ Len(calls) = 3
  /\ calls[1].op = "spawnSync"
  /\ calls[2].op = "throw"
  /\ calls[3] = Notify("Action failed", "error", "runVscode", <<>>)


(***************************************************************************)
(* The filter of the searchable list.                                      *)
(***************************************************************************)
\* C31: whenever the query of searchableSelect is empty, at the start and
\* after the query was backspaced to empty, filteredItems is the original
\* candidate sequence in its order, nothing filtered out, and the filter that
\* produced it did not call the fuzzy matcher.
C31_EmptyQueryKeepsCandidates ==
  /\ (comp = "select" /\ searchText = <<>>) => (filteredItems = items /\ ~fuzzyCalled)
  /\ comp = "select" =>
       LET r == searchableSelectHandleInput(SelectState, KeyEvent("backspace"))
       IN  (Len(searchText) = 1) =>
             /\ r.searchText = <<>>
             /\ r.filteredItems = items
             /\ ~r.fuzzyCalled

\* a query of one character that hides some candidates is about to be
\* backspaced to empty
C31_Witness ==
  /\ comp = "select"
  /\ Len(searchText) = 1
  /\ fuzzyCalled
  /\ Len(filteredItems) < Len(items)
  /\ Len(items) > 1


\* the characters of q occur in t in their order: read from the right end
RECURSIVE IsSubsequence(_, _)
IsSubsequence(q, t) ==
  IF q = <<>> THEN TRUE
  ELSE IF t = <<>> THEN FALSE
  ELSE IF q[Len(q)] = t[Len(t)]
    THEN IsSubsequence(SubSeq(q, 1, Len(q) - 1), SubSeq(t, 1, Len(t) - 1))
  ELSE IsSubsequence(q, SubSeq(t, 1, Len(t) - 1))

\* the candidate has the query as a subsequence of its text "label value",
\* whatever the case of the letters
HasQuery(item) ==
  IsSubsequence(toLowerCase(searchText), toLowerCase(item.label \o <<" ">> \o item.value))

\* C32: for every non-empty query every candidate in filteredItems is a
\* candidate of the list that contains the characters of the query as an
\* in-order, case-insensitive subsequence of its text "label value"; a
\* candidate without such a subsequence is not in filteredItems.
C32_FilteredContainQuery ==
  (comp = "select" /\ searchText # <<>>) =>
    /\ \A i \in 1..Len(filteredItems) :
         /\ HasQuery(filteredItems[i])
         /\ \E j \in 1..Len(items) : items[j] = filteredItems[i]
    /\ \A j \in 1..Len(items) :
         ~HasQuery(items[j]) => \A i \in 1..Len(filteredItems) : filteredItems[i] # items[j]

\* the query "a" has left one of the six thinking levels
C32_Witness ==
  /\ comp = "select"
  /\ searchText = <<"a">>
  /\ Len(items) = 6
  /\ Len(filteredItems) = 1


(***************************************************************************)
(* The rendered frame of the searchable list.                              *)
(***************************************************************************)
\* the rows of the frame of the live list, and those of one kind
Frame == renderItems(SelectState)

RowsOf(kind) == {k \in 1..Len(Frame) : Frame[k].kind = kind}

\* the number an "N more" row shows, 0 when the frame has no such row
Hidden(kind) == IF RowsOf(kind) = {} THEN 0 ELSE Frame[CHOOSE k \in RowsOf(kind) : TRUE].n

\* C33: in every frame of searchableSelect: with filteredItems empty, one "no
\* matches" row and no candidate row; otherwise at most 15 candidate rows, the
\* highlighted candidate among them, an "N more" row above exactly when
\* scrollOffset > 0 and one below exactly when candidates remain past the
\* window, and hidden above + shown + hidden below = filteredItems.length.
C33_FrameShowsWindow ==
  comp = "select" =>
    IF Len(filteredItems) = 0
      THEN /\ Cardinality(RowsOf("no matches")) = 1
           /\ RowsOf("item") = {}
           /\ Len(Frame) = 1
      ELSE /\ RowsOf("no matches") = {}
           /\ Cardinality(RowsOf("item")) <= 15
           /\ Cardinality({k \in RowsOf("item") :
                             Frame[k].highlighted /\ Frame[k].index = highlightedIndex}) = 1
           /\ Cardinality(RowsOf("above")) = (IF scrollOffset > 0 THEN 1 ELSE 0)
           /\ Cardinality(RowsOf("below")) =
                (IF \E i \in 0..(Len(filteredItems) - 1) :
                      \A k \in RowsOf("item") : Frame[k].index < i
                   THEN 1 ELSE 0)
           /\ \A a \in RowsOf("above") : \A k \in RowsOf("item") : a < k
           /\ \A b \in RowsOf("below") : \A k \in RowsOf("item") : k < b
           /\ Hidden("above") + Cardinality(RowsOf("item")) + Hidden("below")
                = Len(filteredItems)

\* a list of more than 16 candidates scrolled by one row: rows are hidden
\* above and below the window
C33_Witness ==
  /\ comp = "select"
  /\ scrollOffset = 1
  /\ Len(filteredItems) > 16
  /\ RowsOf("above") # {}
  /\ RowsOf("below") # {}


ForeignKeys ==
  {entryKey(entries[i]) : i \in 1..Len(entries)}
    \ {view.group.items[j].key : j \in 1..Len(view.group.items)}

\* C35: while a group is open the palette yields actions of that group only:
\* a chord key that belongs to a root action or to another group, and to no
\* action of the open group, produces no outcome and leaves the view and
\* highlightedIndex as they are.
C35_GroupYieldsOwnActionsOnly ==
  (comp = "palette" /\ view.type = "group") =>
    /\ \A data \in PaletteInputs :
         LET r == overlayHandleInput(OverlayState, data)
         IN  (r.outcome.set /\ ~r.outcome.null) =>
               \E j \in 1..Len(view.group.items) : r.outcome.val = view.group.items[j]
    /\ \A c \in ForeignKeys :
         /\ overlayHandleInput(OverlayState, CharEvent(c)) = OverlayState
         /\ overlayHandleInput(OverlayState, KittyEvent(c)) = OverlayState

\* the second row of the Open group is highlighted; the keys of the Session
\* group and of the root actions are foreign to it
C35_Witness ==
  /\ lk = "palette"
  /\ comp = "palette"
  /\ view.type = "group"
  /\ view.group.key = "o"
  /\ lkHighlightedIndex = 1
  /\ {"s", "m", "x"} \subseteq ForeignKeys

\* C36: in every caller of searchableSelect a confirmed choice is never treated
\* as a cancellation: when a step resolved with a candidate's value, whatever
\* the value (the empty string included), the caller goes on to its next step
\* or makes a call, and never returns without having done anything.
C36_ConfirmedNeverCancelled ==
  [][(pc \in SelectSteps /\ outcome.set /\ ~outcome.null /\ pc' = "idle")
       => calls' # calls]_vars

\* C37: in runFavouriteModels, whenever the success notification reports a
\* thinking level T, setThinkingLevel(T) was called earlier in that invocation,
\* for every loaded favourite, whatever its thinking field holds.
C37_ReportedLevelWasApplied ==
  \A i \in 1..Len(calls) :
    (calls[i].op = "notify" /\ calls[i].msg = "Switched to (thinking)")
      => \E j \in 1..(i - 1) : /\ calls[j].op = "setThinkingLevel"
                               /\ calls[j].a = calls[i].b

\* the program positions of runModelSwitcher and of runFavouriteModels
SwitchingSteps ==
  {"switch:entry", "switch:provider", "switch:model", "switch:thinking",
   "fav:entry", "fav:pick"}

SuccessfulSetModelBefore(log, i) ==
  \E j \in 1..(i - 1) : log[j].op = "setModel" /\ log[j].msg = "true"

\* the order of the calls of one invocation
ApplyOrdered(log) ==
  /\ \A i \in 1..Len(log) :
        log[i].op = "setThinkingLevel" => SuccessfulSetModelBefore(log, i)
  /\ Cardinality({i \in 1..Len(log) : log[i].op = "setModel"}) <= 1
  /\ \A i \in 1..Len(log) :
        (log[i].op = "notify" /\ log[i].sev = "info")
          => /\ SuccessfulSetModelBefore(log, i)
             /\ \A j \in (i + 1)..Len(log) : log[j].op # "setThinkingLevel"

\* C38: in runModelSwitcher and in runFavouriteModels, setThinkingLevel is
\* called only after a setModel that reported success in the same invocation,
\* setModel is called at most once in an invocation, and the info
\* notification comes after the successful setModel and after the
\* setThinkingLevel call when there is one.
C38_ApplyOrder == [][(pc \in SwitchingSteps) => ApplyOrdered(calls')]_vars

\* a model switch that set the model, then the level, then announced it
C38_Witness ==
  /\ pc = "idle"
  /\ Len(calls) >= 3
  /\ calls[Len(calls) - 2].op = "setModel"
  /\ calls[Len(calls) - 2].msg = "true"
  /\ calls[Len(calls) - 1].op = "setThinkingLevel"
  /\ calls[Len(calls)].op = "notify"
  /\ calls[Len(calls)].sev = "info"
  /\ \E i \in 1..Len(calls) : calls[i].op = "searchableSelect"

\* the catalog offers the providers, each with the count, that step 1 showed
CatalogAsOffered == getProviders(registry, enabledModels) = locals.providers

\* the available models the allow-list admits
OfferableModels ==
  {m \in Range(registry) :
     m.available /\ isModelEnabled(m.provider, m.id, getEnabledModelSet(enabledModels))}

ShownCount(provider) ==
  LET p == CHOOSE q \in Range(locals.providers) : q.name = provider IN p.modelCount

NoModelsWarned(log) ==
  \E i \in 1..Len(log) : log[i].msg = "No models found for provider"

\* C39: when the available, enabled catalog is at step 2 what it was at step 1
\* of a runModelSwitcher invocation, every provider offered in step 1 has at
\* least one model, step 2 offers as many candidates as the modelCount shown
\* for the chosen provider, every one of them a model of that provider that
\* the allow-list admits, and the flow never warns "No models found for
\* provider".
C39_ModelStepMatchesProviderStep ==
  [][/\ (pc = "switch:entry" /\ pc' = "switch:provider")
          => /\ Len(items') = Len(locals'.providers)
             /\ \A k \in 1..Len(items') :
                   /\ items'[k].value = locals'.providers[k].name
                   /\ locals'.providers[k].modelCount >= 1
                   /\ \E m \in OfferableModels : m.provider = items'[k].value
     /\ (pc = "switch:provider" /\ CatalogAsOffered)
          => /\ ~NoModelsWarned(calls')
             /\ pc' = "switch:model"
                  => /\ Len(items') = ShownCount(locals'.selectedProvider)
                     /\ \A k \in 1..Len(items') :
                           \E m \in OfferableModels :
                             /\ m.id = items'[k].value
                             /\ m.provider = locals'.selectedProvider
    ]_vars

\* step 2 lists the two models of a provider that step 1 showed with two
\* models
C39_Witness ==
  /\ pc = "switch:model"
  /\ comp = "select"
  /\ CatalogAsOffered
  /\ Len(items) = 2
  /\ ShownCount(locals.selectedProvider) = 2

QuickPickMoves == {KeyEvent(k) : k \in {"up", "down", "ctrl-p", "ctrl-n"}}

\* C40: in the favourites picker highlightedIndex stays within
\* [0, favourites.length - 1] whatever up, down, ctrl-p and ctrl-n keys come,
\* and enter resolves the picker with favourites[highlightedIndex], the
\* highlighted row itself, also when an earlier favourite has the same key.
C40_EnterYieldsHighlightedFavourite ==
  comp = "quickpick"
    => /\ favHighlightedIndex \in 0..(Len(favourites) - 1)
       /\ \A data \in QuickPickMoves :
             quickPickHandleInput(QuickPickState, data).highlightedIndex
               \in 0..(Len(favourites) - 1)
       /\ quickPickHandleInput(QuickPickState, KeyEvent("enter")).outcome
            = ValueOutcome(favourites[favHighlightedIndex + 1])

\* the highlight is on the last row, whose key an earlier row has as well
C40_Witness ==
  /\ comp = "quickpick"
  /\ favHighlightedIndex = Len(favourites) - 1
  /\ favHighlightedIndex > 0
  /\ \E i \in 1..favHighlightedIndex :
        toLowerCase(favourites[i].key.s)
          = toLowerCase(favourites[favHighlightedIndex + 1].key.s)

====
